---- MODULE Spec2Model ----
(***************************************************************************)
(* Model of the Data Alchemist constraint validation engine                *)
(* (DataValidator in utils/validators.ts) and of the page handlers that    *)
(* call it on the shared `validator` instance.                             *)
(*                                                                         *)
(* JavaScript values are modelled as records of one shape:                 *)
(*   t : the kind ("string", "number", "NaN", "undefined", "null",         *)
(*       "boolean", "array", "object")                                     *)
(*   s : the characters of a string (a sequence of one-character strings)  *)
(*   n : the integer of a number (1/0 for a boolean)                       *)
(*   a : the elements of an array                                          *)
(* Texts are built from letters, digits, space and the punctuation         *)
(* , [ ] { } : " - ; numbers are integers (no fraction, no exponent).      *)
(***************************************************************************)
EXTENDS Integers, Sequences, FiniteSets, TLC

----------------------------------------------------------------------------
(* JavaScript values *)

Val(t, s, n, a) == [t |-> t, s |-> s, n |-> n, a |-> a]
Str(s) == Val("string", s, 0, <<>>)
Num(n) == Val("number", <<>>, n, <<>>)
NaN == Val("NaN", <<>>, 0, <<>>)
Undefined == Val("undefined", <<>>, 0, <<>>)
Null == Val("null", <<>>, 0, <<>>)
Bool(b) == Val("boolean", <<>>, IF b THEN 1 ELSE 0, <<>>)
Arr(a) == Val("array", <<>>, 0, a)
Obj == Val("object", <<>>, 0, <<>>)

IsString(v) == v.t = "string"

Digits == <<"0", "1", "2", "3", "4", "5", "6", "7", "8", "9">>
IsDigit(c) == \E d \in 1..10 : Digits[d] = c
DigitVal(c) == (CHOOSE d \in 1..10 : Digits[d] = c) - 1
IsSpace(c) == c = " "

RECURSIVE NatToStr(_)
NatToStr(n) ==
    IF n < 10 THEN <<Digits[n + 1]>>
    ELSE NatToStr(n \div 10) \o <<Digits[(n % 10) + 1]>>

IntToStr(n) == IF n < 0 THEN <<"-">> \o NatToStr(0 - n) ELSE NatToStr(n)

RECURSIVE JoinWith(_, _)
JoinWith(parts, sep) ==
    IF parts = <<>> THEN <<>>
    ELSE IF Len(parts) = 1 THEN parts[1]
    ELSE parts[1] \o sep \o JoinWith(Tail(parts), sep)

(* String(v) and template-literal interpolation *)
RECURSIVE JsString(_)
JsString(v) ==
    CASE v.t = "string" -> v.s
      [] v.t = "number" -> IntToStr(v.n)
      [] v.t = "NaN" -> <<"N", "a", "N">>
      [] v.t = "undefined" -> <<"u", "n", "d", "e", "f", "i", "n", "e", "d">>
      [] v.t = "null" -> <<"n", "u", "l", "l">>
      [] v.t = "boolean" -> IF v.n = 1 THEN <<"t", "r", "u", "e">>
                            ELSE <<"f", "a", "l", "s", "e">>
      [] v.t = "array" ->
           JoinWith([i \in 1..Len(v.a) |->
                       IF v.a[i].t \in {"null", "undefined"} THEN <<>>
                       ELSE JsString(v.a[i])], <<",">>)
      [] OTHER -> <<"[", "o", "b", "j", "e", "c", "t", " ",
                    "O", "b", "j", "e", "c", "t", "]">>

(* !v is false exactly for the truthy values *)
Truthy(v) ==
    CASE v.t = "string" -> v.s # <<>>
      [] v.t = "number" -> v.n # 0
      [] v.t = "boolean" -> v.n = 1
      [] v.t \in {"NaN", "undefined", "null"} -> FALSE
      [] OTHER -> TRUE

RECURSIVE TrimLeft(_)
TrimLeft(s) == IF s # <<>> /\ IsSpace(Head(s)) THEN TrimLeft(Tail(s)) ELSE s

RECURSIVE TrimRight(_)
TrimRight(s) ==
    IF s # <<>> /\ IsSpace(s[Len(s)]) THEN TrimRight(SubSeq(s, 1, Len(s) - 1))
    ELSE s

Trim(s) == TrimRight(TrimLeft(s))

Uppers == <<"A", "B", "C", "D", "E", "F", "G", "H", "I", "J", "K", "L", "M",
            "N", "O", "P", "Q", "R", "S", "T", "U", "V", "W", "X", "Y", "Z">>
Lowers == <<"a", "b", "c", "d", "e", "f", "g", "h", "i", "j", "k", "l", "m",
            "n", "o", "p", "q", "r", "s", "t", "u", "v", "w", "x", "y", "z">>

LowerChar(c) ==
    IF \E k \in 1..26 : Uppers[k] = c
    THEN Lowers[CHOOSE k \in 1..26 : Uppers[k] = c]
    ELSE c

ToLowerCase(s) == [i \in 1..Len(s) |-> LowerChar(s[i])]

(* s.split(',') : the pieces between commas, at least one piece *)
RECURSIVE SplitFrom(_, _, _)
SplitFrom(s, i, cur) ==
    IF i > Len(s) THEN <<cur>>
    ELSE IF s[i] = "," THEN <<cur>> \o SplitFrom(s, i + 1, <<>>)
    ELSE SplitFrom(s, i + 1, Append(cur, s[i]))

Split(s) == SplitFrom(s, 1, <<>>)

(* s.includes(sub) *)
Includes(s, sub) ==
    \E i \in 1..(Len(s) + 1) :
        /\ i + Len(sub) - 1 <= Len(s)
        /\ SubSeq(s, i, i + Len(sub) - 1) = sub

RECURSIVE FilterNonEmpty(_)
FilterNonEmpty(parts) ==
    IF parts = <<>> THEN <<>>
    ELSE IF Head(parts) # <<>> THEN <<Head(parts)>> \o FilterNonEmpty(Tail(parts))
    ELSE FilterNonEmpty(Tail(parts))

(* s.split(',').map(t => t.trim()) *)
SplitTrim(s) == [i \in 1..Len(Split(s)) |-> Trim(Split(s)[i])]

(* s.split(',').map(t => t.trim()).filter(t => t) *)
SplitList(s) == FilterNonEmpty(SplitTrim(s))

----------------------------------------------------------------------------
(* Numeric coercion *)

RECURSIVE DigitsToNat(_, _)
DigitsToNat(s, acc) ==
    IF s = <<>> THEN acc
    ELSE DigitsToNat(Tail(s), acc * 10 + DigitVal(Head(s)))

AllDigits(s) == s # <<>> /\ \A i \in 1..Len(s) : IsDigit(s[i])

(* Number(text) for integer texts; any other non-blank text is NaN *)
StringToNumber(s) ==
    LET t == Trim(s) IN
    IF t = <<>> THEN Num(0)
    ELSE IF AllDigits(t) THEN Num(DigitsToNat(t, 0))
    ELSE IF Head(t) \in {"-", "+"} /\ AllDigits(Tail(t))
         THEN Num((IF Head(t) = "-" THEN -1 ELSE 1) * DigitsToNat(Tail(t), 0))
    ELSE NaN

(* ToNumber(v); the result is a number value or NaN *)
ToNumber(v) ==
    CASE v.t = "number" -> v
      [] v.t = "string" -> StringToNumber(v.s)
      [] v.t = "null" -> Num(0)
      [] v.t = "boolean" -> Num(v.n)
      [] v.t = "array" -> StringToNumber(JsString(v))
      [] OTHER -> NaN

(* a < b on two strings compares them by code unit; the texts compared   *)
(* here are digit strings and letters, ordered as in ASCII               *)
CharOrder == <<" ", "\"", "+", ",", "-">> \o Digits \o <<":">> \o Uppers
             \o <<"[", "]">> \o Lowers \o <<"{", "}">>
CharRank(c) == CHOOSE k \in 1..Len(CharOrder) : CharOrder[k] = c

RECURSIVE StrLess(_, _)
StrLess(x, y) ==
    IF y = <<>> THEN FALSE
    ELSE IF x = <<>> THEN TRUE
    ELSE IF Head(x) = Head(y) THEN StrLess(Tail(x), Tail(y))
    ELSE CharRank(Head(x)) < CharRank(Head(y))

(* the JavaScript relational operator x < y *)
JsLess(x, y) ==
    IF x.t = "string" /\ y.t = "string" THEN StrLess(x.s, y.s)
    ELSE LET nx == ToNumber(x)
             ny == ToNumber(y)
         IN nx.t = "number" /\ ny.t = "number" /\ nx.n < ny.n

JsGreater(x, y) == JsLess(y, x)

(* the JavaScript operator x + y for primitives and arrays *)
JsAdd(x, y) ==
    IF x.t \in {"string", "array", "object"} \/ y.t \in {"string", "array", "object"}
    THEN Str(JsString(x) \o JsString(y))
    ELSE LET nx == ToNumber(x)
             ny == ToNumber(y)
         IN IF nx.t = "number" /\ ny.t = "number" THEN Num(nx.n + ny.n) ELSE NaN

(* the JavaScript operator x * y *)
JsMul(x, y) ==
    LET nx == ToNumber(x)
        ny == ToNumber(y)
    IN IF nx.t = "number" /\ ny.t = "number" THEN Num(nx.n * ny.n) ELSE NaN

----------------------------------------------------------------------------
(* JSON.parse: a recursive-descent reading of the JSON grammar over the    *)
(* model's alphabet (integers, string literals without escapes, arrays,    *)
(* objects, true/false/null, blanks between tokens).  A parse step returns *)
(* [ok, v, i]: whether a value was read, the value, the next position.     *)

ParseFail == [ok |-> FALSE, v |-> Undefined, i |-> 0]
ParseOk(v, i) == [ok |-> TRUE, v |-> v, i |-> i]

RECURSIVE SkipWs(_, _)
SkipWs(s, i) == IF i <= Len(s) /\ IsSpace(s[i]) THEN SkipWs(s, i + 1) ELSE i

RECURSIVE DigitsEnd(_, _)
DigitsEnd(s, i) == IF i <= Len(s) /\ IsDigit(s[i]) THEN DigitsEnd(s, i + 1) ELSE i

(* number := -? ( 0 | [1-9][0-9]* ) *)
ParseNumber(s, i) ==
    LET neg == s[i] = "-"
        d == IF neg THEN i + 1 ELSE i
        e == DigitsEnd(s, d)
    IN IF e = d THEN ParseFail
       ELSE IF s[d] = "0" /\ e > d + 1 THEN ParseOk(Num(0), d + 1)
       ELSE ParseOk(Num((IF neg THEN -1 ELSE 1) * DigitsToNat(SubSeq(s, d, e - 1), 0)), e)

RECURSIVE QuoteEnd(_, _)
QuoteEnd(s, i) ==
    IF i > Len(s) THEN 0
    ELSE IF s[i] = "\"" THEN i
    ELSE QuoteEnd(s, i + 1)

(* string := " chars " , s[i] being the opening quote *)
ParseString(s, i) ==
    LET q == QuoteEnd(s, i + 1)
    IN IF q = 0 THEN ParseFail ELSE ParseOk(Str(SubSeq(s, i + 1, q - 1)), q + 1)

ParseLiteral(s, i, word, v) ==
    IF i + Len(word) - 1 <= Len(s) /\ SubSeq(s, i, i + Len(word) - 1) = word
    THEN ParseOk(v, i + Len(word))
    ELSE ParseFail

RECURSIVE ParseValue(_, _)
RECURSIVE ParseElements(_, _, _)
RECURSIVE ParseMembers(_, _)

(* elements := value ( , value )* ] *)
ParseElements(s, i, acc) ==
    LET After(r, j) ==
            IF ~r.ok \/ j > Len(s) THEN ParseFail
            ELSE IF s[j] = "]" THEN ParseOk(Arr(Append(acc, r.v)), j + 1)
            ELSE IF s[j] = "," THEN ParseElements(s, j + 1, Append(acc, r.v))
            ELSE ParseFail
        Element(r) == After(r, IF r.ok THEN SkipWs(s, r.i) ELSE 0)
    IN Element(ParseValue(s, i))

(* members := string : value ( , string : value )* } *)
ParseMembers(s, i) ==
    LET After(r, j) ==
            IF ~r.ok \/ j > Len(s) THEN ParseFail
            ELSE IF s[j] = "}" THEN ParseOk(Obj, j + 1)
            ELSE IF s[j] = "," THEN ParseMembers(s, j + 1)
            ELSE ParseFail
        Member(r) == After(r, IF r.ok THEN SkipWs(s, r.i) ELSE 0)
        Colon(key, c) ==
            Member(IF key.ok /\ c <= Len(s) /\ s[c] = ":" THEN ParseValue(s, c + 1)
                   ELSE ParseFail)
        Key(key) == Colon(key, IF key.ok THEN SkipWs(s, key.i) ELSE 0)
        Start(k) == Key(IF k <= Len(s) /\ s[k] = "\"" THEN ParseString(s, k) ELSE ParseFail)
    IN Start(SkipWs(s, i))

ParseValue(s, i) ==
    LET Elements(k) ==
            IF k <= Len(s) /\ s[k] = "]" THEN ParseOk(Arr(<<>>), k + 1)
            ELSE ParseElements(s, k, <<>>)
        Members(k) ==
            IF k <= Len(s) /\ s[k] = "}" THEN ParseOk(Obj, k + 1)
            ELSE ParseMembers(s, k)
        Value(j) ==
            IF j > Len(s) THEN ParseFail
            ELSE IF s[j] = "[" THEN Elements(SkipWs(s, j + 1))
            ELSE IF s[j] = "{" THEN Members(SkipWs(s, j + 1))
            ELSE IF s[j] = "\"" THEN ParseString(s, j)
            ELSE IF s[j] = "-" \/ IsDigit(s[j]) THEN ParseNumber(s, j)
            ELSE IF s[j] = "t" THEN ParseLiteral(s, j, <<"t", "r", "u", "e">>, Bool(TRUE))
            ELSE IF s[j] = "f" THEN ParseLiteral(s, j, <<"f", "a", "l", "s", "e">>, Bool(FALSE))
            ELSE IF s[j] = "n" THEN ParseLiteral(s, j, <<"n", "u", "l", "l">>, Null)
            ELSE ParseFail
    IN Value(SkipWs(s, i))

(* JSON.parse(v): the argument is coerced to a string; the result is     *)
(* [threw, v], threw standing for the SyntaxError                         *)
JSONParse(v) ==
    LET Result(text, r) ==
            IF r.ok /\ SkipWs(text, r.i) > Len(text)
            THEN [threw |-> FALSE, v |-> r.v]
            ELSE [threw |-> TRUE, v |-> Undefined]
        Parse(text) == Result(text, ParseValue(text, 1))
    IN Parse(JsString(v))

----------------------------------------------------------------------------
(* DataValidator: the accumulator and the passes.  An accumulator is      *)
(* [errors, warnings, threw]: this.errors, this.warnings and whether an    *)
(* exception has escaped a pass (the remaining statements are then not     *)
(* executed).  A forEach callback appends to the accumulator and reads     *)
(* nothing of it, so a loop is described by what the callback appends for  *)
(* each element in turn.                                                   *)

GLOBAL == Str(<<"G", "L", "O", "B", "A", "L">>)

Diagnostic(entityType, entityId, field, message, severity, rowIndex, columnIndex) ==
    [entityType |-> entityType, entityId |-> entityId, field |-> field,
     message |-> message, severity |-> severity,
     rowIndex |-> rowIndex, columnIndex |-> columnIndex]

addError(acc, entityType, entityId, field, message, rowIndex, columnIndex) ==
    [acc EXCEPT !.errors = Append(@,
        Diagnostic(entityType, entityId, field, message, "error", rowIndex, columnIndex))]

addWarning(acc, entityType, entityId, field, message, rowIndex, columnIndex) ==
    [acc EXCEPT !.warnings = Append(@,
        Diagnostic(entityType, entityId, field, message, "warning", rowIndex, columnIndex))]

Throw(acc) == [acc EXCEPT !.threw = TRUE]

(* what running a callback on an empty accumulator leaves *)
Nothing == [errors |-> <<>>, warnings |-> <<>>, threw |-> FALSE]

(* the accumulator after a callback run that left `effect` *)
Merge(acc, effect) ==
    [errors |-> acc.errors \o effect.errors,
     warnings |-> acc.warnings \o effect.warnings,
     threw |-> effect.threw]

(* arr.forEach(callback): effects[k] is what the callback leaves for the *)
(* k-th element; the elements are visited in order and an exception      *)
(* thrown by the callback ends the loop                                   *)
RECURSIVE ForEach(_, _)
ForEach(acc, effects) ==
    IF acc.threw \/ effects = <<>> THEN acc
    ELSE ForEach(Merge(acc, Head(effects)), Tail(effects))

requiredClientFields ==
    <<"ClientID", "ClientName", "PriorityLevel", "RequestedTaskIDs", "GroupTag",
      "AttributesJSON">>
requiredWorkerFields ==
    <<"WorkerID", "WorkerName", "Skills", "AvailableSlots", "MaxLoadPerPhase",
      "WorkerGroup", "QualificationLevel">>
requiredTaskFields ==
    <<"TaskID", "TaskName", "Category", "Duration", "RequiredSkills",
      "PreferredPhases", "MaxConcurrent">>

(* !value || String(value).trim() === '' *)
IsMissing(value) == ~Truthy(value) \/ Trim(JsString(value)) = <<>>

(* records.forEach((rec, index) => fields.forEach((field, colIndex) => ...)), *)
(* index and colIndex being 0-based                                            *)
RequiredOf(acc, entityType, idField, fields, records) ==
    ForEach(acc,
        [r \in 1..Len(records) |->
            ForEach(Nothing,
                [c \in 1..Len(fields) |->
                    IF IsMissing(records[r][fields[c]])
                    THEN addError(Nothing, entityType, records[r][idField], fields[c],
                                  <<"Missing required field: ", fields[c]>>, r - 1, c - 1)
                    ELSE Nothing])])

validateRequiredColumns(acc, clients, workers, tasks) ==
    LET a1 == RequiredOf(acc, "client", "ClientID", requiredClientFields, clients)
        a2 == RequiredOf(a1, "worker", "WorkerID", requiredWorkerFields, workers)
    IN RequiredOf(a2, "task", "TaskID", requiredTaskFields, tasks)

(* a variant that holds the ids of all the other records *)
SeenElsewhere(records, idField, i) ==
    {records[k][idField] : k \in (1..Len(records)) \ {i}}

(* the ids of the records before position i (1-based): the Set built so far *)
SeenBefore(records, idField, i) == {records[k][idField] : k \in 1..(i - 1)}

(* a variant that reports the 1-based position of the record *)
DuplicatesOfFromOne(acc, entityType, idField, message, records) ==
    ForEach(acc,
        [r \in 1..Len(records) |->
            IF records[r][idField] \in SeenBefore(records, idField, r)
            THEN addError(Nothing, entityType, records[r][idField], idField,
                          <<message>>, r, 0)
            ELSE Nothing])

DuplicatesOf(acc, entityType, idField, message, records) ==
    ForEach(acc,
        [r \in 1..Len(records) |->
            IF records[r][idField] \in SeenBefore(records, idField, r)
            THEN addError(Nothing, entityType, records[r][idField], idField,
                          <<message>>, r - 1, 0)
            ELSE Nothing])

validateDuplicateIDs(acc, clients, workers, tasks) ==
    LET a1 == DuplicatesOf(acc, "client", "ClientID", "Duplicate ClientID found", clients)
        a2 == DuplicatesOf(a1, "worker", "WorkerID", "Duplicate WorkerID found", workers)
    IN DuplicatesOf(a2, "task", "TaskID", "Duplicate TaskID found", tasks)

(* Array.isArray(x) && x.every(e => typeof e === 'number' && e > 0) *)
IsPositiveArray(v) ==
    /\ v.t = "array"
    /\ \A k \in 1..Len(v.a) : v.a[k].t = "number" /\ v.a[k].n > 0

(* a variant that reports only the texts that do not parse *)
MalformedOfParseOnly(acc, entityType, idField, field, columnIndex, records) ==
    ForEach(acc,
        [r \in 1..Len(records) |->
            IF JSONParse(records[r][field]).threw
            THEN addError(Nothing, entityType, records[r][idField], field,
                          <<field, " must be valid JSON array">>, r - 1, columnIndex)
            ELSE Nothing])

MalformedOf(acc, entityType, idField, field, columnIndex, records) ==
    ForEach(acc,
        [r \in 1..Len(records) |->
            LET Checked(p) ==
                    IF p.threw
                    THEN addError(Nothing, entityType, records[r][idField], field,
                                  <<field, " must be valid JSON array">>,
                                  r - 1, columnIndex)
                    ELSE IF ~IsPositiveArray(p.v)
                    THEN addError(Nothing, entityType, records[r][idField], field,
                                  <<field, " must be an array of positive numbers">>,
                                  r - 1, columnIndex)
                    ELSE Nothing
            IN Checked(JSONParse(records[r][field]))])

validateMalformedData(acc, clients, workers, tasks) ==
    LET a1 == MalformedOf(acc, "worker", "WorkerID", "AvailableSlots", 3, workers)
    IN MalformedOf(a1, "task", "TaskID", "PreferredPhases", 5, tasks)

(* a variant whose client loop stops at the first client out of range *)
validateOutOfRangeValuesFirstOnly(acc, clients, workers, tasks) ==
    LET OutOfRange(r) == JsLess(clients[r].PriorityLevel, Num(1))
                             \/ JsGreater(clients[r].PriorityLevel, Num(5))
        a1 == ForEach(acc,
                [r \in 1..Len(clients) |->
                    IF OutOfRange(r) /\ \A q \in 1..(r - 1) : ~OutOfRange(q)
                    THEN addError(Nothing, "client", clients[r].ClientID, "PriorityLevel",
                                  <<"PriorityLevel must be between 1 and 5">>, r - 1, 2)
                    ELSE Nothing])
        a2 == ForEach(a1,
                [r \in 1..Len(workers) |->
                    IF JsLess(workers[r].MaxLoadPerPhase, Num(1))
                    THEN addError(Nothing, "worker", workers[r].WorkerID, "MaxLoadPerPhase",
                                  <<"MaxLoadPerPhase must be at least 1">>, r - 1, 4)
                    ELSE Nothing])
    IN ForEach(a2,
            [r \in 1..Len(tasks) |->
                Merge(IF JsLess(tasks[r].Duration, Num(1))
                      THEN addError(Nothing, "task", tasks[r].TaskID, "Duration",
                                    <<"Duration must be at least 1">>, r - 1, 3)
                      ELSE Nothing,
                      IF JsLess(tasks[r].MaxConcurrent, Num(1))
                      THEN addError(Nothing, "task", tasks[r].TaskID, "MaxConcurrent",
                                    <<"MaxConcurrent must be at least 1">>, r - 1, 6)
                      ELSE Nothing)])

(* a variant that checks MaxConcurrent only when Duration is in range *)
validateOutOfRangeValuesElseIf(acc, clients, workers, tasks) ==
    LET a1 == ForEach(acc,
                [r \in 1..Len(clients) |->
                    IF JsLess(clients[r].PriorityLevel, Num(1))
                           \/ JsGreater(clients[r].PriorityLevel, Num(5))
                    THEN addError(Nothing, "client", clients[r].ClientID, "PriorityLevel",
                                  <<"PriorityLevel must be between 1 and 5">>, r - 1, 2)
                    ELSE Nothing])
        a2 == ForEach(a1,
                [r \in 1..Len(workers) |->
                    IF JsLess(workers[r].MaxLoadPerPhase, Num(1))
                    THEN addError(Nothing, "worker", workers[r].WorkerID, "MaxLoadPerPhase",
                                  <<"MaxLoadPerPhase must be at least 1">>, r - 1, 4)
                    ELSE Nothing])
    IN ForEach(a2,
            [r \in 1..Len(tasks) |->
                IF JsLess(tasks[r].Duration, Num(1))
                THEN addError(Nothing, "task", tasks[r].TaskID, "Duration",
                              <<"Duration must be at least 1">>, r - 1, 3)
                ELSE IF JsLess(tasks[r].MaxConcurrent, Num(1))
                THEN addError(Nothing, "task", tasks[r].TaskID, "MaxConcurrent",
                              <<"MaxConcurrent must be at least 1">>, r - 1, 6)
                ELSE Nothing])

validateOutOfRangeValues(acc, clients, workers, tasks) ==
    LET a1 == ForEach(acc,
                [r \in 1..Len(clients) |->
                    IF JsLess(clients[r].PriorityLevel, Num(1))
                           \/ JsGreater(clients[r].PriorityLevel, Num(5))
                    THEN addError(Nothing, "client", clients[r].ClientID, "PriorityLevel",
                                  <<"PriorityLevel must be between 1 and 5">>, r - 1, 2)
                    ELSE Nothing])
        a2 == ForEach(a1,
                [r \in 1..Len(workers) |->
                    IF JsLess(workers[r].MaxLoadPerPhase, Num(1))
                    THEN addError(Nothing, "worker", workers[r].WorkerID, "MaxLoadPerPhase",
                                  <<"MaxLoadPerPhase must be at least 1">>, r - 1, 4)
                    ELSE Nothing])
    IN ForEach(a2,
            [r \in 1..Len(tasks) |->
                Merge(IF JsLess(tasks[r].Duration, Num(1))
                      THEN addError(Nothing, "task", tasks[r].TaskID, "Duration",
                                    <<"Duration must be at least 1">>, r - 1, 3)
                      ELSE Nothing,
                      IF JsLess(tasks[r].MaxConcurrent, Num(1))
                      THEN addError(Nothing, "task", tasks[r].TaskID, "MaxConcurrent",
                                    <<"MaxConcurrent must be at least 1">>, r - 1, 6)
                      ELSE Nothing)])

(* a variant that reports AttributesJSON in the GroupTag column *)
validateJSONFormatColumn4(acc, clients, workers, tasks) ==
    ForEach(acc,
        [r \in 1..Len(clients) |->
            IF JSONParse(clients[r].AttributesJSON).threw
            THEN addError(Nothing, "client", clients[r].ClientID, "AttributesJSON",
                          <<"AttributesJSON must be valid JSON">>, r - 1, 4)
            ELSE Nothing])

validateJSONFormat(acc, clients, workers, tasks) ==
    ForEach(acc,
        [r \in 1..Len(clients) |->
            IF JSONParse(clients[r].AttributesJSON).threw
            THEN addError(Nothing, "client", clients[r].ClientID, "AttributesJSON",
                          <<"AttributesJSON must be valid JSON">>, r - 1, 5)
            ELSE Nothing])

(* a variant that compares the ids without regard to case *)
DanglingOfIgnoringCase(client, index, taskIds) ==
    LET requestedTasks == SplitList(client.RequestedTaskIDs.s)
    IN ForEach(Nothing,
           [k \in 1..Len(requestedTasks) |->
               IF \A id \in taskIds :
                      ~(IsString(id)
                          /\ ToLowerCase(id.s) = ToLowerCase(requestedTasks[k]))
               THEN addError(Nothing, "client", client.ClientID, "RequestedTaskIDs",
                             <<"Requested task ", requestedTasks[k], " does not exist">>,
                             index, 3)
               ELSE Nothing])

(* the requested ids of one client that are not in taskIds, one error each *)
DanglingOf(client, index, taskIds) ==
    LET requestedTasks == SplitList(client.RequestedTaskIDs.s)
    IN ForEach(Nothing,
           [k \in 1..Len(requestedTasks) |->
               IF Str(requestedTasks[k]) \notin taskIds
               THEN addError(Nothing, "client", client.ClientID, "RequestedTaskIDs",
                             <<"Requested task ", requestedTasks[k], " does not exist">>,
                             index, 3)
               ELSE Nothing])

(* client.RequestedTaskIDs.split(...) is a TypeError unless the value is *)
(* a string; the exception is not caught by the pass                      *)
validateCrossReferences(acc, clients, workers, tasks) ==
    LET taskIds == {tasks[k].TaskID : k \in 1..Len(tasks)}
    IN ForEach(acc,
           [r \in 1..Len(clients) |->
               IF ~IsString(clients[r].RequestedTaskIDs) THEN Throw(Nothing)
               ELSE DanglingOf(clients[r], r - 1, taskIds)])

(* a variant that tests the two fields one after the other and warns for each *)
validateCircularDependenciesPerField(acc, tasks) ==
    ForEach(acc,
        [r \in 1..Len(tasks) |->
            IF ~IsString(tasks[r].TaskName) \/ ~IsString(tasks[r].Category)
            THEN Throw(Nothing)
            ELSE Merge(IF Includes(tasks[r].TaskName.s, JsString(tasks[r].TaskID))
                       THEN addWarning(Nothing, "task", tasks[r].TaskID, "TaskName",
                                       <<"Potential circular dependency detected">>,
                                       r - 1, 1)
                       ELSE Nothing,
                       IF Includes(tasks[r].Category.s, JsString(tasks[r].TaskID))
                       THEN addWarning(Nothing, "task", tasks[r].TaskID, "TaskName",
                                       <<"Potential circular dependency detected">>,
                                       r - 1, 1)
                       ELSE Nothing)])

(* task.TaskName.includes(task.TaskID) || task.Category.includes(task.TaskID): *)
(* a TypeError when the receiver that is evaluated is not a string             *)
validateCircularDependencies(acc, tasks) ==
    ForEach(acc,
        [r \in 1..Len(tasks) |->
            IF ~IsString(tasks[r].TaskName) THEN Throw(Nothing)
            ELSE IF Includes(tasks[r].TaskName.s, JsString(tasks[r].TaskID))
            THEN addWarning(Nothing, "task", tasks[r].TaskID, "TaskName",
                            <<"Potential circular dependency detected">>, r - 1, 1)
            ELSE IF ~IsString(tasks[r].Category) THEN Throw(Nothing)
            ELSE IF Includes(tasks[r].Category.s, JsString(tasks[r].TaskID))
            THEN addWarning(Nothing, "task", tasks[r].TaskID, "TaskName",
                            <<"Potential circular dependency detected">>, r - 1, 1)
            ELSE Nothing])

----------------------------------------------------------------------------
(* Plain objects used as maps (phaseCapacity, phaseDemand): the entries   *)
(* [k, v] in insertion order, k being the property key as text.           *)

PropertyKey(v) == JsString(v)

ObjHas(o, key) == \E e \in 1..Len(o) : o[e].k = key

(* o[key], undefined when the object has no such property *)
ObjGet(o, key) ==
    IF ObjHas(o, key) THEN o[CHOOSE e \in 1..Len(o) : o[e].k = key].v ELSE Undefined

(* o[key] = v *)
ObjSet(o, key, v) ==
    IF ObjHas(o, key)
    THEN [e \in 1..Len(o) |-> IF o[e].k = key THEN [k |-> key, v |-> v] ELSE o[e]]
    ELSE Append(o, [k |-> key, v |-> v])

(* a canonical array index: digits without a leading zero *)
IsArrayIndex(key) == AllDigits(key) /\ (Len(key) = 1 \/ key[1] # "0")

RECURSIVE SortedIndexKeys(_)
SortedIndexKeys(keys) ==
    IF keys = {} THEN <<>>
    ELSE LET m == CHOOSE x \in keys :
                    \A y \in keys : DigitsToNat(x, 0) <= DigitsToNat(y, 0)
         IN <<m>> \o SortedIndexKeys(keys \ {m})

RECURSIVE OtherKeys(_)
OtherKeys(o) ==
    IF o = <<>> THEN <<>>
    ELSE IF IsArrayIndex(Head(o).k) THEN OtherKeys(Tail(o))
    ELSE <<Head(o).k>> \o OtherKeys(Tail(o))

(* Object.keys(o): integer keys in ascending order, then the other keys  *)
(* in insertion order                                                     *)
ObjectKeys(o) ==
    SortedIndexKeys({o[e].k : e \in {x \in 1..Len(o) : IsArrayIndex(o[x].k)}})
        \o OtherKeys(o)

(* parseInt(text): blanks, a sign, then the longest run of digits *)
ParseInt(s) ==
    LET t == TrimLeft(s)
        signed == t # <<>> /\ Head(t) \in {"-", "+"}
        d == IF signed THEN 2 ELSE 1
        e == DigitsEnd(t, d)
    IN IF e = d THEN NaN
       ELSE Num((IF signed /\ Head(t) = "-" THEN -1 ELSE 1)
                    * DigitsToNat(SubSeq(t, d, e - 1), 0))

(* v || 0 *)
OrZero(v) == IF Truthy(v) THEN v ELSE Num(0)

(* x.length for a parsed JSON value other than null *)
LengthOf(v) ==
    CASE v.t = "array" -> Num(Len(v.a))
      [] v.t = "string" -> Num(Len(v.s))
      [] OTHER -> Undefined

validateWorkerOverload(acc, workers, tasks) ==
    ForEach(acc,
        [r \in 1..Len(workers) |->
            LET Checked(p) ==
                    IF p.threw \/ p.v.t = "null" THEN Nothing
                    ELSE IF JsLess(LengthOf(p.v), workers[r].MaxLoadPerPhase)
                    THEN addWarning(Nothing, "worker", workers[r].WorkerID,
                                    "MaxLoadPerPhase",
                                    <<"Worker may be overloaded: ", JsString(LengthOf(p.v)),
                                      " slots available but max load is ",
                                      JsString(workers[r].MaxLoadPerPhase)>>,
                                    r - 1, 4)
                    ELSE Nothing
            IN Checked(JSONParse(workers[r].AvailableSlots))])

(* the elements x.forEach visits; a value that is not an array has no    *)
(* forEach, the TypeError being caught by the caller's try               *)
ElementsOf(p) == IF ~p.threw /\ p.v.t = "array" THEN p.v.a ELSE <<>>

RECURSIVE AddToPhases(_, _, _)
AddToPhases(o, phases, amount) ==
    IF phases = <<>> THEN o
    ELSE LET key == PropertyKey(Head(phases))
         IN AddToPhases(ObjSet(o, key, JsAdd(OrZero(ObjGet(o, key)), amount)),
                        Tail(phases), amount)

RECURSIVE PhaseCapacity(_, _)
PhaseCapacity(o, workers) ==
    IF workers = <<>> THEN o
    ELSE PhaseCapacity(AddToPhases(o, ElementsOf(JSONParse(Head(workers).AvailableSlots)),
                                   Head(workers).MaxLoadPerPhase),
                       Tail(workers))

RECURSIVE PhaseDemand(_, _)
PhaseDemand(o, tasks) ==
    IF tasks = <<>> THEN o
    ELSE PhaseDemand(AddToPhases(o, ElementsOf(JSONParse(Head(tasks).PreferredPhases)),
                                 JsMul(Head(tasks).Duration, Head(tasks).MaxConcurrent)),
                     Tail(tasks))

(* the warning, if any, for one key of phaseDemand *)
SaturationOf(phaseStr, phaseCapacity, phaseDemand) ==
    LET phase == PropertyKey(ParseInt(phaseStr))
        demand == ObjGet(phaseDemand, phase)
        capacity == OrZero(ObjGet(phaseCapacity, phase))
    IN IF JsGreater(demand, capacity)
       THEN addWarning(Nothing, "task", GLOBAL, "PreferredPhases",
                       <<"Phase ", phase, " may be oversaturated: demand ",
                         JsString(demand), " > capacity ", JsString(capacity)>>,
                       0, 5)
       ELSE Nothing

validatePhaseSlotSaturation(acc, workers, tasks) ==
    LET Report(phaseCapacity, phaseDemand, keys) ==
            ForEach(acc,
                [k \in 1..Len(keys) |->
                    SaturationOf(keys[k], phaseCapacity, phaseDemand)])
        Compare(phaseCapacity, phaseDemand) ==
            Report(phaseCapacity, phaseDemand, ObjectKeys(phaseDemand))
    IN Compare(PhaseCapacity(<<>>, workers), PhaseDemand(<<>>, tasks))

(* typeof v === 'string' ? v : '' *)
StringOrEmpty(v) == IF IsString(v) THEN v.s ELSE <<>>

SeqToSet(q) == {q[k] : k \in 1..Len(q)}

LowerAll(list) == [k \in 1..Len(list) |-> ToLowerCase(list[k])]

(* a variant that keeps the skills of the workers as they are written *)
WorkerSkillsAsWritten(workers) ==
    UNION {SeqToSet(SplitList(StringOrEmpty(workers[k].Skills)))
              : k \in 1..Len(workers)}

(* the Set of lower-cased skills of all workers *)
WorkerSkills(workers) ==
    UNION {SeqToSet(LowerAll(SplitList(StringOrEmpty(workers[k].Skills))))
              : k \in 1..Len(workers)}

RECURSIVE MissingSkills(_, _)
MissingSkills(requiredSkills, workerSkills) ==
    IF requiredSkills = <<>> THEN <<>>
    ELSE IF ToLowerCase(Head(requiredSkills)) \notin workerSkills
    THEN <<Head(requiredSkills)>> \o MissingSkills(Tail(requiredSkills), workerSkills)
    ELSE MissingSkills(Tail(requiredSkills), workerSkills)

validateSkillCoverage(acc, workers, tasks) ==
    LET workerSkills == WorkerSkills(workers)
    IN ForEach(acc,
           [r \in 1..Len(tasks) |->
               LET requiredSkills == SplitList(StringOrEmpty(tasks[r].RequiredSkills))
                   missingSkills == MissingSkills(requiredSkills, workerSkills)
               IN IF Len(missingSkills) > 0
                  THEN addError(Nothing, "task", tasks[r].TaskID, "RequiredSkills",
                                <<"No workers available with skills: ",
                                  JoinWith(missingSkills, <<",", " ">>)>>,
                                r - 1, 4)
                  ELSE Nothing])

(* a variant that does not trim the skills of the worker *)
IsQualifiedUntrimmed(worker, requiredSkills) ==
    \E r \in 1..Len(requiredSkills) :
        \E ws \in SeqToSet(Split(StringOrEmpty(worker.Skills))) :
            ToLowerCase(ws) = ToLowerCase(requiredSkills[r])

(* a variant that compares the skills as they are written *)
IsQualifiedAsWritten(worker, requiredSkills) ==
    \E r \in 1..Len(requiredSkills) :
        \E ws \in SeqToSet(SplitTrim(StringOrEmpty(worker.Skills))) :
            ws = requiredSkills[r]

(* the worker has a skill equal, in lower case, to one of requiredSkills *)
IsQualified(worker, requiredSkills) ==
    \E r \in 1..Len(requiredSkills) :
        \E ws \in SeqToSet(SplitTrim(StringOrEmpty(worker.Skills))) :
            ToLowerCase(ws) = ToLowerCase(requiredSkills[r])

QualifiedWorkers(workers, requiredSkills) ==
    {k \in 1..Len(workers) : IsQualified(workers[k], requiredSkills)}

(* a variant of the concurrency pass that reports on the errors list *)
validateMaxConcurrencyAsError(acc, tasks, workers) ==
    ForEach(acc,
        [r \in 1..Len(tasks) |->
            LET requiredSkills == SplitList(StringOrEmpty(tasks[r].RequiredSkills))
                qualified == Num(Cardinality(QualifiedWorkers(workers, requiredSkills)))
            IN IF JsLess(qualified, tasks[r].MaxConcurrent)
               THEN addError(Nothing, "task", tasks[r].TaskID, "MaxConcurrent",
                             <<"MaxConcurrent (", JsString(tasks[r].MaxConcurrent),
                               ") exceeds available qualified workers (",
                               JsString(qualified), ")">>,
                             r - 1, 6)
               ELSE Nothing])

validateMaxConcurrency(acc, tasks, workers) ==
    ForEach(acc,
        [r \in 1..Len(tasks) |->
            LET requiredSkills == SplitList(StringOrEmpty(tasks[r].RequiredSkills))
                qualified == Num(Cardinality(QualifiedWorkers(workers, requiredSkills)))
            IN IF JsLess(qualified, tasks[r].MaxConcurrent)
               THEN addWarning(Nothing, "task", tasks[r].TaskID, "MaxConcurrent",
                               <<"MaxConcurrent (", JsString(tasks[r].MaxConcurrent),
                                 ") exceeds available qualified workers (",
                                 JsString(qualified), ")">>,
                               r - 1, 6)
               ELSE Nothing])

(* variants of the reset that leave one or both lists as they were *)
KeepAccumulator(errors, warnings) ==
    [errors |-> errors, warnings |-> warnings, threw |-> FALSE]

ResetErrorsOnly(errors, warnings) ==
    [errors |-> <<>>, warnings |-> warnings, threw |-> FALSE]

ResetWarningsOnly(errors, warnings) ==
    [errors |-> errors, warnings |-> <<>>, threw |-> FALSE]

(* this.errors = []; this.warnings = [] *)
ResetAccumulator(errors, warnings) ==
    [errors |-> <<>>, warnings |-> <<>>, threw |-> FALSE]

(* one statement of validateAll: the call of the pass of that name *)
RunPass(pass, acc, clients, workers, tasks) ==
    CASE pass = "validateRequiredColumns" ->
            validateRequiredColumns(acc, clients, workers, tasks)
      [] pass = "validateDuplicateIDs" ->
            validateDuplicateIDs(acc, clients, workers, tasks)
      [] pass = "validateMalformedData" ->
            validateMalformedData(acc, clients, workers, tasks)
      [] pass = "validateOutOfRangeValues" ->
            validateOutOfRangeValues(acc, clients, workers, tasks)
      [] pass = "validateJSONFormat" ->
            validateJSONFormat(acc, clients, workers, tasks)
      [] pass = "validateCrossReferences" ->
            validateCrossReferences(acc, clients, workers, tasks)
      [] pass = "validateCircularDependencies" ->
            validateCircularDependencies(acc, tasks)
      [] pass = "validateWorkerOverload" ->
            validateWorkerOverload(acc, workers, tasks)
      [] pass = "validatePhaseSlotSaturation" ->
            validatePhaseSlotSaturation(acc, workers, tasks)
      [] pass = "validateSkillCoverage" ->
            validateSkillCoverage(acc, workers, tasks)
      [] pass = "validateMaxConcurrency" ->
            validateMaxConcurrency(acc, tasks, workers)

(* the statements in turn; a pass is not entered once an exception has   *)
(* escaped an earlier one                                                 *)
RECURSIVE RunPasses(_, _, _, _, _)
RunPasses(passes, acc, clients, workers, tasks) ==
    IF acc.threw \/ passes = <<>> THEN acc
    ELSE RunPasses(Tail(passes), RunPass(Head(passes), acc, clients, workers, tasks),
                   clients, workers, tasks)

(* a variant that runs the skill-coverage pass before the duplicate-ID pass *)
PassesReordered ==
    <<"validateRequiredColumns", "validateSkillCoverage", "validateDuplicateIDs",
      "validateMalformedData", "validateOutOfRangeValues", "validateJSONFormat",
      "validateCrossReferences", "validateCircularDependencies",
      "validateWorkerOverload", "validatePhaseSlotSaturation",
      "validateMaxConcurrency">>

(* the passes in the order validateAll calls them *)
Passes ==
    <<"validateRequiredColumns", "validateDuplicateIDs", "validateMalformedData",
      "validateOutOfRangeValues", "validateJSONFormat", "validateCrossReferences",
      "validateCircularDependencies", "validateWorkerOverload",
      "validatePhaseSlotSaturation", "validateSkillCoverage",
      "validateMaxConcurrency">>

(* validateAll on an instance whose fields hold errors and warnings: the *)
(* accumulator when the call returns or raises                           *)
validateAll(errors, warnings, clients, workers, tasks) ==
    RunPasses(Passes, ResetAccumulator(errors, warnings), clients, workers, tasks)

----------------------------------------------------------------------------
(* The records the handlers are exercised with.                           *)

Client(id, name, priority, requested, group, attributes) ==
    [ClientID |-> id, ClientName |-> name, PriorityLevel |-> priority,
     RequestedTaskIDs |-> requested, GroupTag |-> group, AttributesJSON |-> attributes]

Worker(id, name, skills, slots, maxLoad, group, level) ==
    [WorkerID |-> id, WorkerName |-> name, Skills |-> skills, AvailableSlots |-> slots,
     MaxLoadPerPhase |-> maxLoad, WorkerGroup |-> group, QualificationLevel |-> level]

Task(id, name, category, duration, skills, phases, maxConcurrent) ==
    [TaskID |-> id, TaskName |-> name, Category |-> category, Duration |-> duration,
     RequiredSkills |-> skills, PreferredPhases |-> phases, MaxConcurrent |-> maxConcurrent]

txtG == Str(<<"g">>)
txtEmptyObject == Str(<<"{", "}">>)
txtNot == Str(<<"n", "o", "t">>)
txtWelding == Str(<<"w", "e", "l", "d", "i", "n", "g">>)

ClientRecords ==
    { Client(Str(<<"C", "1">>), Str(<<"A", "c", "m", "e">>), Num(3),
             Str(<<"T", "1", ",", " ", "t", "2">>), txtG, txtEmptyObject),
      Client(Str(<<"C", "1">>), Str(<<"A", "c", "m", "e">>), Num(7),
             Str(<<"T", "1", ",", " ", "t", "2">>), txtG, txtEmptyObject),
      Client(Str(<<"C", "2">>), Str(<<" ">>), Num(0), Str(<<>>), txtG, txtNot),
      Client(Str(<<"C", "2">>), Str(<<"A", "c", "m", "e">>), Num(3),
             Num(5), txtG, txtEmptyObject) }

WorkerRecords ==
    { Worker(Str(<<"W", "1">>), Str(<<"A", "n", "n">>), txtWelding,
             Str(<<"[", "1", "]">>), Num(2), txtG, txtG),
      Worker(Str(<<"W", "2">>), Str(<<"B", "o", "b">>),
             Str(<<"P", "a", "i", "n", "t", ",", " ", "w", "e", "l", "d", "i", "n", "g">>),
             Str(<<"[", "2", ",", " ", "2", ",", " ", "1", "]">>), Num(1), txtG, txtG),
      Worker(Str(<<"W", "1">>), Str(<<"A", "n", "n">>), Str(<<>>),
             txtNot, Num(0), txtG, txtG),
      Worker(Str(<<"T", "2">>), Str(<<"B", "o", "b">>), Str(<<"p", "a", "i", "n", "t">>),
             Str(<<"[", "1", ",", "1", "]">>), Str(<<"2">>), txtG, txtG),
      Worker(Str(<<"W", "1">>), Str(<<"A", "n", "n">>), txtWelding,
             Str(<<"[", "0", "]">>), Num(2), txtG, txtG) }

TaskRecords ==
    { Task(Str(<<"T", "1">>), Str(<<"B", "u", "i", "l", "d">>), txtG, Num(3),
           txtWelding, Str(<<"[", "1", "]">>), Num(1)),
      Task(Str(<<"T", "2">>), Str(<<"T", "a", "s", "k", " ", "T", "2">>), txtG, Num(1),
           Str(<<"w", "e", "l", "d", "i", "n", "g", ",", "p", "a", "i", "n", "t">>),
           Str(<<"[", "2", ",", " ", "1", "]">>), Num(2)),
      Task(Str(<<"T", "1">>), Str(<<"B", "u", "i", "l", "d">>), txtG, Num(0),
           Str(<<>>), txtNot, Num(0)),
      Task(Str(<<"T", "2">>), Null, txtG, Num(1), txtWelding,
           Str(<<"[", "1", "]">>), Num(1)) }

(* the page: at most MaxLen records in an uploaded file, at most         *)
(* MaxRows records over the three collections                            *)
MaxLen == 2
MaxRows == 3

(* a single call: at most MaxPer records in a collection, at most        *)
(* MaxRecords over the three                                              *)
MaxPer == 2
MaxRecords == 4

SeqsUpTo(S, n) == UNION {[1..k -> S] : k \in 0..n}

CandidatesOf(entityType) ==
    CASE entityType = "clients" -> ClientRecords
      [] entityType = "workers" -> WorkerRecords
      [] OTHER -> TaskRecords

NumericFields == {"PriorityLevel", "MaxLoadPerPhase", "Duration", "MaxConcurrent"}
BlankDefaultFields == {"RequestedTaskIDs", "Skills", "RequiredSkills"}

(* what transformClientData, transformWorkerData and transformTaskData    *)
(* can build: parseInt(...) for the numeric fields, String(cell ||        *)
(* default) for the others, the default being non-empty except for the    *)
(* three list fields                                                       *)
IsTransformed(rec) ==
    \A f \in DOMAIN rec :
        IF f \in NumericFields THEN rec[f].t \in {"number", "NaN"}
        ELSE /\ rec[f].t = "string"
             /\ (f \notin BlankDefaultFields => rec[f].s # <<>>)

----------------------------------------------------------------------------
(* The page (Home) and the shared validator instance.                     *)

VARIABLES
    clients, workers, tasks,  \* the page state `data`
    errors, warnings,         \* validator.errors, validator.warnings
    threw,                    \* the last validateAll call raised
    made,                     \* validateAll has been called
    passed,                   \* the collections as handed to the last call
    validationResults,        \* the page state `validationResults`
    pending,                  \* the handler calls that have begun and not
                              \* ended: uploads awaiting parseFile, and the
                              \* onDataUpdate calls applyModifications has
                              \* still to make (sync); each with the `data`
                              \* of the render its callback closed over
    before                    \* the instance when the last call began: whether
                              \* it held diagnostics of an earlier call (held),
                              \* whether that call had the same arguments (same)
                              \* and, if so, its outcome; and the cell in
                              \* which the arguments differ from those of
                              \* the call before, when that call returned,
                              \* had as many records and all other cells
                              \* are the same (edited); whether the call
                              \* before returned a result (returned) and
                              \* whether that result shows after the last
                              \* call what it showed when returned (intact)

vars == <<clients, workers, tasks, errors, warnings, threw, made, passed,
          validationResults, pending, before>>

Collections(c, w, t) == [clients |-> c, workers |-> w, tasks |-> t]

Outcome(e, w, x) == [errors |-> e, warnings |-> w, threw |-> x]

(* { errors: this.errors, warnings: this.warnings } *)
Lists(e, w) == [errors |-> e, warnings |-> w]

Init ==
    /\ clients = <<>>
    /\ workers = <<>>
    /\ tasks = <<>>
    /\ errors = <<>>
    /\ warnings = <<>>
    /\ threw = FALSE
    /\ made = FALSE
    /\ passed = Collections(<<>>, <<>>, <<>>)
    /\ validationResults = Lists(<<>>, <<>>)
    /\ pending = {}
    /\ before = [held |-> FALSE, same |-> FALSE,
                 outcome |-> Outcome(<<>>, <<>>, FALSE), edited |-> {},
                 returned |-> FALSE, intact |-> TRUE]

(* a variant in which a pass reorders the task array in place *)
InputsAfterReversing(args) ==
    [args EXCEPT !.tasks = [k \in 1..Len(@) |-> @[Len(@) + 1 - k]]]

(* the collections when validateAll is done with them: the passes only   *)
(* read them (forEach, map, filter, split build new values)               *)
InputsAfter(args) == args

(* [entityType]: newData over the data of the closure *)
WithEntity(entityType, newData) ==
    Collections(IF entityType = "clients" THEN newData ELSE clients,
                IF entityType = "workers" THEN newData ELSE workers,
                IF entityType = "tasks" THEN newData ELSE tasks)

(* the cells <<collection, row, field>> in which two data sets with as  *)
(* many records differ                                                    *)
SameShape(old, new) == \A k \in DOMAIN old : Len(old[k]) = Len(new[k])

Cells(old) ==
    UNION {UNION {{<<k, q, g>> : g \in DOMAIN old[k][q]} : q \in 1..Len(old[k])} :
              k \in DOMAIN old}

ChangedCells(old, new) ==
    {c \in Cells(old) : old[c[1]][c[2]][c[3]] # new[c[1]][c[2]][c[3]]}

(* a variant in which validateAll empties the arrays of the instance in *)
(* place, so that the arrays handed out before are the ones it fills     *)
HandedOutAfterClearing(handedOut, later) == Lists(later.errors, later.warnings)

(* the lists a result handed out before shows when a later call has     *)
(* run: this.errors = [] and this.warnings = [] bind new arrays to the   *)
(* instance, and the pushes of the later call go to those                *)
HandedOutAfter(handedOut, later) == handedOut

(* const validation = validator.validateAll(...);                       *)
(* setValidationResults(validation): the statement after a call that     *)
(* raises is not reached                                                  *)
Validation(args) ==
    LET same == made /\ args = passed
    IN \E r \in {validateAll(errors, warnings,
                              args.clients, args.workers, args.tasks)} :
            /\ errors' = r.errors
            /\ warnings' = r.warnings
            /\ threw' = r.threw
            /\ made' = TRUE
            /\ passed' = args
            /\ validationResults' = IF r.threw THEN validationResults
                                    ELSE Lists(r.errors, r.warnings)
            /\ before' = [held |-> Len(errors) + Len(warnings) > 0,
                          same |-> same,
                          outcome |-> IF same THEN Outcome(errors, warnings, threw)
                                      ELSE Outcome(<<>>, <<>>, FALSE),
                          edited |-> IF made /\ ~threw /\ SameShape(passed, args)
                                          /\ Cardinality(ChangedCells(passed, args)) = 1
                                     THEN ChangedCells(passed, args) ELSE {},
                          returned |-> made /\ ~threw,
                          intact |-> (made /\ ~threw) =>
                                        HandedOutAfter(Lists(errors, warnings), r)
                                            = Lists(errors, warnings)]

(* setData(...) followed by validator.validateAll(...) and               *)
(* setValidationResults(...), by a callback of the latest render: the    *)
(* page keeps the very arrays it hands to the validator                  *)
ValidateCall(args) ==
    /\ \E after \in {InputsAfter(args)} :
            /\ clients' = after.clients
            /\ workers' = after.workers
            /\ tasks' = after.tasks
    /\ Validation(args)
    /\ pending' = pending

allDataUploaded == Len(clients) > 0 /\ Len(workers) > 0 /\ Len(tasks) > 0

Rows(args) == Len(args.clients) + Len(args.workers) + Len(args.tasks)

(* the records transformXData can deliver *)
Uploadable(entityType) == {rec \in CandidatesOf(entityType) : IsTransformed(rec)}

(* handleFileUpload once the file is parsed and transformed; the upload  *)
(* cards are rendered until all three collections are non-empty          *)
HandleFileUpload(entityType, transformedData) ==
    /\ ~allDataUploaded
    /\ Rows(WithEntity(entityType, transformedData)) <= MaxRows
    /\ ValidateCall(WithEntity(entityType, transformedData))

(* handleDataUpdate, called by the grid and the panels, which are        *)
(* rendered once all three collections are non-empty; they hand back a   *)
(* copy of the collection with cells of a record replaced (handleSave,   *)
(* applyAiFix, applyModifications)                                        *)
HandleDataUpdate(entityType, row, record) ==
    /\ allDataUploaded
    /\ row \in 1..Len(Collections(clients, workers, tasks)[entityType])
    /\ ValidateCall(WithEntity(entityType,
            [Collections(clients, workers, tasks)[entityType] EXCEPT ![row] = record]))

EntityTypes == {"clients", "workers", "tasks"}

Next ==
    \E entityType \in EntityTypes :
        \/ \E transformedData \in SeqsUpTo(Uploadable(entityType), MaxLen) :
               HandleFileUpload(entityType, transformedData)
        \/ \E row \in 1..MaxRows, record \in CandidatesOf(entityType) :
               HandleDataUpdate(entityType, row, record)

Spec == Init /\ [][Next]_vars

----------------------------------------------------------------------------
(* The page when handler calls overlap: an upload awaits parseFile while *)
(* other callbacks run, and applyModifications calls onDataUpdate once   *)
(* for each collection it changed.  A callback reads `data` from the     *)
(* render that created it; setData(prev => ...) works on the state as it *)
(* is when the update is applied.                                         *)

MaxPending == 2

(* the records the overlapping handlers are exercised with *)
OverlapRecords(entityType) ==
    CASE entityType = "clients" ->
             {rec \in Uploadable(entityType) : rec.ClientID = Str(<<"C", "1">>)}
      [] entityType = "workers" ->
             {rec \in Uploadable(entityType) :
                 rec.WorkerID = Str(<<"W", "1">>) /\ rec.Skills = txtWelding}
      [] OTHER ->
             {rec \in Uploadable(entityType) : rec.Duration # Num(0)}

(* the files that are uploaded while handlers overlap: one record each *)
OverlapFiles(entityType) ==
    CASE entityType = "clients" ->
             {<<rec>> : rec \in {c \in OverlapRecords(entityType) :
                                    c.PriorityLevel = Num(3)}}
      [] entityType = "workers" ->
             {<<rec>> : rec \in {w \in OverlapRecords(entityType) :
                                    w.AvailableSlots = Str(<<"[", "1", "]">>)}}
      [] OTHER ->
             {<<rec>> : rec \in {t \in OverlapRecords(entityType) :
                                    t.TaskID = Str(<<"T", "1">>)}}

SyncPending == \E p \in pending : p.sync

(* the statements of handleFileUpload after the await, and those of     *)
(* handleDataUpdate, run by a callback that closed over `closure`        *)
CallFromClosure(entityType, newData, closure) ==
    /\ \E after \in {InputsAfter([closure EXCEPT ![entityType] = newData])} :
            /\ clients' = IF entityType = "clients" THEN after.clients ELSE clients
            /\ workers' = IF entityType = "workers" THEN after.workers ELSE workers
            /\ tasks' = IF entityType = "tasks" THEN after.tasks ELSE tasks
    /\ Validation([closure EXCEPT ![entityType] = newData])

(* handleFileUpload up to `await parseFile(file)` *)
BeginFileUpload(entityType, transformedData) ==
    /\ ~allDataUploaded
    /\ ~SyncPending
    /\ Cardinality(pending) < MaxPending
    /\ pending' = pending \cup
            {[entityType |-> entityType, newData |-> transformedData,
              closure |-> Collections(clients, workers, tasks), sync |-> FALSE]}
    /\ UNCHANGED <<clients, workers, tasks, errors, warnings, threw, made, passed,
                   validationResults, before>>

(* handleFileUpload from the await on *)
ResumeFileUpload(p) ==
    /\ ~p.sync
    /\ ~SyncPending
    /\ CallFromClosure(p.entityType, p.newData, p.closure)
    /\ pending' = pending \ {p}

(* a grid edit or an applied fix: one handleDataUpdate call *)
UpdateOne(entityType, record) ==
    /\ ~SyncPending
    /\ HandleDataUpdate(entityType, 1, record)

(* applyModifications with changes to two collections: the first        *)
(* onDataUpdate call; the second is made unless the first raises         *)
ApplyModifications(first, firstRecord, second, secondRecord) ==
    /\ allDataUploaded
    /\ ~SyncPending
    /\ CallFromClosure(first, <<firstRecord>>, Collections(clients, workers, tasks))
    /\ pending' = IF threw' THEN pending
                  ELSE pending \cup
                         {[entityType |-> second, newData |-> <<secondRecord>>,
                           closure |-> Collections(clients, workers, tasks),
                           sync |-> TRUE]}

(* the second onDataUpdate call of applyModifications *)
SecondUpdate(p) ==
    /\ p.sync
    /\ CallFromClosure(p.entityType, p.newData, p.closure)
    /\ pending' = pending \ {p}

(* the order of (['clients', 'workers', 'tasks']).forEach *)
TypePairs == {<<"clients", "workers">>, <<"clients", "tasks">>, <<"workers", "tasks">>}

NextOverlap ==
    \/ \E entityType \in EntityTypes :
           \E transformedData \in OverlapFiles(entityType) :
               BeginFileUpload(entityType, transformedData)
    \/ \E p \in pending : ResumeFileUpload(p)
    \/ \E entityType \in EntityTypes :
           \E record \in OverlapRecords(entityType) : UpdateOne(entityType, record)
    \/ \E pair \in TypePairs :
           \E firstRecord \in OverlapRecords(pair[1]) :
               \E secondRecord \in OverlapRecords(pair[2]) :
                   ApplyModifications(pair[1], firstRecord, pair[2], secondRecord)
    \/ \E p \in pending : SecondUpdate(p)

SpecOverlap == Init /\ [][NextOverlap]_vars

----------------------------------------------------------------------------
(* One validateAll call on a newly constructed DataValidator, for every  *)
(* choice of the three collections.                                       *)

(* the call is also made with a client whose attributes are JSON that   *)
(* is neither an object nor an array, a worker whose slots are the empty *)
(* array, a worker whose max load is negative, a task whose phases are JSON that is not an array and whose   *)
(* id is its category, and a task whose id is in its name and category   *)
(* and whose duration is the NaN parseInt gives for text without digits   *)
ClientInputs ==
    ClientRecords \cup
        { Client(Str(<<"C", "3">>), Str(<<"Z", "e", "d">>), Num(2),
                 Str(<<"T", "1">>), txtG, Str(<<"5">>)) }

WorkerInputs ==
    WorkerRecords \cup
        { Worker(Str(<<"W", "3">>), Str(<<"C", "y">>), txtWelding,
                 Str(<<"[", "]">>), Num(1), txtG, txtG),
          Worker(Str(<<"W", "4">>), Str(<<"D", "i">>), txtWelding,
                 Str(<<"[", "1", "]">>), Num(-1), txtG, txtG) }

TaskInputs ==
    TaskRecords \cup
        { Task(Str(<<"T", "3">>), Str(<<"M", "i", "x">>), Str(<<"T", "3">>), Num(2),
               Str(<<"p", "a", "i", "n", "t">>), Str(<<"5">>), Num(1)),
          Task(Str(<<"T", "4">>), Str(<<"T", "4">>), Str(<<"x", "T", "4">>), NaN,
               txtWelding, Str(<<"[", "1", "]">>), Num(1)) }

InitCall ==
    /\ clients \in SeqsUpTo(ClientInputs, MaxPer)
    /\ workers \in SeqsUpTo(WorkerInputs, MaxPer)
    /\ tasks \in SeqsUpTo(TaskInputs, MaxPer)
    /\ Len(clients) + Len(workers) + Len(tasks) <= MaxRecords
    /\ errors = <<>>
    /\ warnings = <<>>
    /\ threw = FALSE
    /\ made = FALSE
    /\ passed = Collections(<<>>, <<>>, <<>>)
    /\ validationResults = Lists(<<>>, <<>>)
    /\ pending = {}
    /\ before = [held |-> FALSE, same |-> FALSE,
                 outcome |-> Outcome(<<>>, <<>>, FALSE), edited |-> {},
                 returned |-> FALSE, intact |-> TRUE]

Call ==
    /\ ~made
    /\ ValidateCall(Collections(clients, workers, tasks))

NextCall == Call

SpecCall == InitCall /\ [][NextCall]_vars

----------------------------------------------------------------------------
(* Properties *)

NoCollections == Collections(<<>>, <<>>, <<>>)

(* C1: two validateAll calls in a row with the same clients, workers and *)
(* tasks have the same outcome: the same errors list and the same        *)
(* warnings list, with the same diagnostics in the same order.           *)
Determinism ==
    before.same => Outcome(errors, warnings, threw) = before.outcome

(* a call repeated with the same arguments returned diagnostics in both lists *)
DeterminismWitness ==
    /\ before.same
    /\ ~threw
    /\ Len(errors) > 0
    /\ Len(warnings) > 0

(* C2: validateAll returns and never raises, whatever the records hold. *)
NeverRaises == ~threw

(* C3: the outcome of a validateAll call on the shared instance is the   *)
(* outcome of the same call on a newly constructed instance: nothing of  *)
(* an earlier call is left in the returned lists.                        *)
DependsOnlyOnArguments ==
    made => Outcome(errors, warnings, threw)
               = validateAll(<<>>, <<>>, passed.clients, passed.workers, passed.tasks)

(* a call with other arguments than the one before it, begun on an       *)
(* instance that held that call's diagnostics, has returned              *)
DependsOnlyOnArgumentsWitness ==
    /\ made
    /\ before.held
    /\ ~before.same
    /\ ~threw

Emptiness ==
    (made /\ passed = NoCollections) =>
        (~threw /\ errors = <<>> /\ warnings = <<>>)

(* three empty collections validated by an instance that held the       *)
(* diagnostics of an earlier call                                        *)
EmptinessWitness ==
    /\ made
    /\ passed = NoCollections
    /\ before.held

(* the pass that emits a diagnostic, read from its message; the passes  *)
(* are numbered in the order validateAll is specified to run them        *)
PassOf(d) ==
    LET m == d.message[1]
    IN CASE m = "Missing required field: " -> 1
         [] m \in {"Duplicate ClientID found", "Duplicate WorkerID found",
                   "Duplicate TaskID found"} -> 2
         [] m \in {"AvailableSlots", "PreferredPhases"} -> 3
         [] m \in {"PriorityLevel must be between 1 and 5",
                   "MaxLoadPerPhase must be at least 1",
                   "Duration must be at least 1",
                   "MaxConcurrent must be at least 1"} -> 4
         [] m = "AttributesJSON must be valid JSON" -> 5
         [] m = "Requested task " -> 6
         [] m = "Potential circular dependency detected" -> 7
         [] m = "Worker may be overloaded: " -> 8
         [] m = "Phase " -> 9
         [] m = "No workers available with skills: " -> 10
         [] m = "MaxConcurrent (" -> 11
         [] OTHER -> 0

(* the diagnostics of a list are grouped by pass in pass order and,      *)
(* within one pass and one entity type, in increasing record position    *)
InPassOrder(list) ==
    \A i, j \in 1..Len(list) :
        i < j =>
            /\ PassOf(list[i]) <= PassOf(list[j])
            /\ (PassOf(list[i]) = PassOf(list[j])
                    /\ list[i].entityType = list[j].entityType)
                => list[i].rowIndex <= list[j].rowIndex

(* C6: each returned list is grouped by pass in the fixed pass order     *)
(* and, within one pass and one entity collection, ordered by            *)
(* increasing record position.                                           *)
PassOrder ==
    (made /\ ~threw) => (InPassOrder(errors) /\ InPassOrder(warnings))

(* a returned errors list holding diagnostics of the duplicate-ID pass   *)
(* and of the skill-coverage pass, and of one pass on two rows           *)
PassOrderWitness ==
    /\ made
    /\ ~threw
    /\ \E i, j \in 1..Len(errors) : PassOf(errors[i]) = 2 /\ PassOf(errors[j]) = 10
    /\ \E i, j \in 1..Len(errors) :
           /\ PassOf(errors[i]) = PassOf(errors[j])
           /\ errors[i].entityType = errors[j].entityType
           /\ errors[i].rowIndex < errors[j].rowIndex
    /\ \E i, j \in 1..Len(warnings) : PassOf(warnings[i]) < PassOf(warnings[j])

ErrorPasses == {1, 2, 3, 4, 5, 6, 10}
WarningPasses == {7, 8, 9, 11}

(* C7: every diagnostic of the errors list has severity error and comes  *)
(* from a pass other than the naming, overload, saturation and           *)
(* concurrency passes; every diagnostic of the warnings list has         *)
(* severity warning and comes from one of those four.                    *)
SeverityByPass ==
    /\ \A i \in 1..Len(errors) :
           errors[i].severity = "error" /\ PassOf(errors[i]) \in ErrorPasses
    /\ \A i \in 1..Len(warnings) :
           warnings[i].severity = "warning" /\ PassOf(warnings[i]) \in WarningPasses

(* a returned result with a skill-coverage error and a warning of each   *)
(* of the four warning passes                                            *)
SeverityByPassWitness ==
    /\ made
    /\ ~threw
    /\ \E i \in 1..Len(errors) : PassOf(errors[i]) = 10
    /\ \A p \in WarningPasses : \E i \in 1..Len(warnings) : PassOf(warnings[i]) = p

IdFieldOf(entityType) ==
    CASE entityType = "client" -> "ClientID"
      [] entityType = "worker" -> "WorkerID"
      [] OTHER -> "TaskID"

CollectionOf(entityType) ==
    CASE entityType = "client" -> passed.clients
      [] entityType = "worker" -> passed.workers
      [] OTHER -> passed.tasks

PointsAtRecord(d) ==
    d.entityId # GLOBAL =>
        /\ d.rowIndex \in 0..(Len(CollectionOf(d.entityType)) - 1)
        /\ CollectionOf(d.entityType)[d.rowIndex + 1][IdFieldOf(d.entityType)] = d.entityId

(* C8: a diagnostic whose entityId is not GLOBAL has as rowIndex a       *)
(* 0-based position of the collection of its entityType, and the record  *)
(* at that position has the diagnostic's entityId as identifier.         *)
RowIdentifiesRecord ==
    /\ \A i \in 1..Len(errors) : PointsAtRecord(errors[i])
    /\ \A i \in 1..Len(warnings) : PointsAtRecord(warnings[i])

(* a returned result with an error and a warning about records that are  *)
(* not the first of their collections, and a GLOBAL warning              *)
RowIdentifiesRecordWitness ==
    /\ made
    /\ ~threw
    /\ \E i \in 1..Len(errors) : errors[i].rowIndex > 0
    /\ \E i \in 1..Len(warnings) : warnings[i].rowIndex > 0 /\ warnings[i].entityId # GLOBAL
    /\ \E i \in 1..Len(warnings) : warnings[i].entityId = GLOBAL

ClientSchema ==
    <<"ClientID", "ClientName", "PriorityLevel", "RequestedTaskIDs", "GroupTag",
      "AttributesJSON">>
WorkerSchema ==
    <<"WorkerID", "WorkerName", "Skills", "AvailableSlots", "MaxLoadPerPhase",
      "WorkerGroup", "QualificationLevel">>
TaskSchema ==
    <<"TaskID", "TaskName", "Category", "Duration", "RequiredSkills",
      "PreferredPhases", "MaxConcurrent">>

SchemaOf(entityType) ==
    CASE entityType = "client" -> ClientSchema
      [] entityType = "worker" -> WorkerSchema
      [] OTHER -> TaskSchema

AtSchemaColumn(d) ==
    /\ d.columnIndex \in 0..(Len(SchemaOf(d.entityType)) - 1)
    /\ SchemaOf(d.entityType)[d.columnIndex + 1] = d.field

(* C9: the columnIndex of every diagnostic is the 0-based position of    *)
(* its field in the schema of its entityType.                            *)
ColumnIsSchemaPosition ==
    /\ \A i \in 1..Len(errors) : AtSchemaColumn(errors[i])
    /\ \A i \in 1..Len(warnings) : AtSchemaColumn(warnings[i])

(* the passes that have a diagnostic in the returned lists *)
PassesReporting ==
    {PassOf(errors[i]) : i \in 1..Len(errors)}
        \cup {PassOf(warnings[i]) : i \in 1..Len(warnings)}

(* a returned result with diagnostics of ten of the eleven passes, about *)
(* clients, workers and tasks                                            *)
ColumnIsSchemaPositionWitness ==
    /\ made
    /\ ~threw
    /\ Cardinality(PassesReporting) >= 10
    /\ \A e \in {"client", "worker", "task"} :
           \E i \in 1..Len(errors) : errors[i].entityType = e

(* the 'Missing required field' errors for a field of the record at a row *)
MissingErrors(entityType, rowIndex, field) ==
    {i \in 1..Len(errors) :
        /\ PassOf(errors[i]) = 1
        /\ errors[i].entityType = entityType
        /\ errors[i].rowIndex = rowIndex
        /\ errors[i].field = field}

(* blank after coercion to a string *)
IsBlankText(value) == Trim(JsString(value)) = <<>>

MissingIffBlank(entityType) ==
    \A r \in 1..Len(CollectionOf(entityType)) :
        \A c \in 1..Len(SchemaOf(entityType)) :
            LET field == SchemaOf(entityType)[c]
            IN Cardinality(MissingErrors(entityType, r - 1, field))
                 = IF IsBlankText(CollectionOf(entityType)[r][field]) THEN 1 ELSE 0

(* C10: the required-columns pass emits one 'Missing required field'     *)
(* error for a field of a record exactly when the field's value,         *)
(* coerced to a string, is empty or only whitespace.                     *)
MissingExactlyWhenBlank ==
    (made /\ ~threw) =>
        (MissingIffBlank("client") /\ MissingIffBlank("worker") /\ MissingIffBlank("task"))

----------------------------------------------------------------------------
(* The passes one by one *)

EntityKinds == {"client", "worker", "task"}

(* the errors about a field of the record at a row of a collection *)
FieldErrors(entityType, rowIndex, field) ==
    {i \in 1..Len(errors) :
        /\ errors[i].entityType = entityType
        /\ errors[i].rowIndex = rowIndex
        /\ errors[i].field = field}

(* C11: in a returned result a client whose PriorityLevel is an integer *)
(* outside 1..5 has exactly one error on field PriorityLevel, and a     *)
(* client whose PriorityLevel is in 1..5 has none.                      *)
PriorityLevelErrors ==
    (made /\ ~threw) =>
        \A r \in 1..Len(passed.clients) :
            passed.clients[r].PriorityLevel.t = "number" =>
                Cardinality(FieldErrors("client", r - 1, "PriorityLevel"))
                    = IF passed.clients[r].PriorityLevel.n \in 1..5 THEN 0 ELSE 1

(* the duplicate-ID errors about the record at a row of a collection *)
DuplicateErrors(entityType, rowIndex) ==
    {i \in FieldErrors(entityType, rowIndex, IdFieldOf(entityType)) :
        PassOf(errors[i]) = 2}

(* an earlier record of the collection has the identifier of the r-th *)
HasEarlierTwin(entityType, r) ==
    \E k \in 1..(r - 1) :
        CollectionOf(entityType)[k][IdFieldOf(entityType)]
            = CollectionOf(entityType)[r][IdFieldOf(entityType)]

(* C12: within each collection the record at position i has one         *)
(* duplicate-ID error, on its ID field at rowIndex i, exactly when an    *)
(* earlier record of the same collection has the same identifier, and   *)
(* none otherwise; identifiers shared across collections do not count.   *)
DuplicateExactlyWhenSeen ==
    (made /\ ~threw) =>
        \A e \in EntityKinds :
            \A r \in 1..Len(CollectionOf(e)) :
                Cardinality(DuplicateErrors(e, r - 1))
                    = IF HasEarlierTwin(e, r) THEN 1 ELSE 0

(* a returned result with a duplicate-ID error about a second occurrence *)
(* and a worker and a task that share an identifier, neither reported    *)
DuplicateExactlyWhenSeenWitness ==
    /\ made
    /\ ~threw
    /\ \E i \in 1..Len(errors) : PassOf(errors[i]) = 2 /\ errors[i].rowIndex = 1
    /\ \E w \in 1..Len(passed.workers), t \in 1..Len(passed.tasks) :
           /\ passed.workers[w].WorkerID = passed.tasks[t].TaskID
           /\ DuplicateErrors("worker", w - 1) = {}
           /\ DuplicateErrors("task", t - 1) = {}

(* the entries of the requested-task list of the r-th client *)
RequestedEntries(r) == SplitList(passed.clients[r].RequestedTaskIDs.s)

IsTaskId(entry) ==
    \E t \in 1..Len(passed.tasks) : passed.tasks[t].TaskID = Str(entry)

(* the cross-reference errors about the r-th client, in list order *)
CrossReferenceErrors(r) ==
    LET About(d) == PassOf(d) = 6 /\ d.entityType = "client" /\ d.rowIndex = r - 1
    IN SelectSeq(errors, About)

(* the entries of the r-th client that are the TaskID of no task *)
DanglingEntries(r) ==
    LET Dangling(entry) == ~IsTaskId(entry)
    IN SelectSeq(RequestedEntries(r), Dangling)

(* C13: for each client the cross-reference pass emits one              *)
(* RequestedTaskIDs error per entry of the requested-task list           *)
(* (comma-split, trimmed, empty entries dropped) that is not exactly     *)
(* the TaskID of a task, naming the entry, and none for an entry that is.*)
CrossReferenceExact ==
    (made /\ ~threw) =>
        \A r \in 1..Len(passed.clients) :
            /\ Len(CrossReferenceErrors(r)) = Len(DanglingEntries(r))
            /\ \A k \in 1..Len(DanglingEntries(r)) :
                   /\ CrossReferenceErrors(r)[k].field = "RequestedTaskIDs"
                   /\ CrossReferenceErrors(r)[k].message[2] = DanglingEntries(r)[k]

(* a returned result for a client two of whose entries are looked up    *)
(* among the tasks: one is a TaskID and is not reported, the other       *)
(* differs from a TaskID in case only and is reported                    *)
CrossReferenceExactWitness ==
    /\ made
    /\ ~threw
    /\ \E r \in 1..Len(passed.clients) :
           /\ Len(RequestedEntries(r)) = 2
           /\ IsTaskId(RequestedEntries(r)[1])
           /\ \E t \in 1..Len(passed.tasks) :
                  /\ passed.tasks[t].TaskID.s # RequestedEntries(r)[2]
                  /\ ToLowerCase(passed.tasks[t].TaskID.s)
                        = ToLowerCase(RequestedEntries(r)[2])
           /\ Len(CrossReferenceErrors(r)) = 1

(* the required skills of the r-th task: comma-split, trimmed, the empty *)
(* entries dropped                                                        *)
RequiredSkillsOf(r) == SplitList(StringOrEmpty(passed.tasks[r].RequiredSkills))

(* some worker lists the skill, letter case apart *)
IsPossessed(skill) ==
    \E w \in 1..Len(passed.workers) :
        \E k \in 1..Len(SplitList(StringOrEmpty(passed.workers[w].Skills))) :
            ToLowerCase(SplitList(StringOrEmpty(passed.workers[w].Skills))[k])
                = ToLowerCase(skill)

(* the required skills of the r-th task that no worker possesses *)
SkillsNobodyHas(r) ==
    LET Lacking(skill) == ~IsPossessed(skill)
    IN SelectSeq(RequiredSkillsOf(r), Lacking)

(* the skill-coverage errors about the r-th task *)
SkillCoverageErrors(r) ==
    {i \in FieldErrors("task", r - 1, "RequiredSkills") : PassOf(errors[i]) = 10}

(* C14: the skill-coverage pass emits for a task one RequiredSkills     *)
(* error naming all its missing skills when at least one required skill  *)
(* (comma-split, trimmed, compared without regard to case) is possessed  *)
(* by no worker, and no error when every required skill is possessed.    *)
SkillCoverageExact ==
    (made /\ ~threw) =>
        \A r \in 1..Len(passed.tasks) :
            IF SkillsNobodyHas(r) = <<>> THEN SkillCoverageErrors(r) = {}
            ELSE /\ Cardinality(SkillCoverageErrors(r)) = 1
                 /\ \A i \in SkillCoverageErrors(r) :
                        errors[i].message[2] = JoinWith(SkillsNobodyHas(r), <<",", " ">>)

(* a returned result with a task of two required skills, one possessed  *)
(* by a worker and one by none, and a task without a coverage error     *)
(* whose skill a worker possesses                                        *)
SkillCoverageExactWitness ==
    /\ made
    /\ ~threw
    /\ \E r \in 1..Len(passed.tasks) :
           /\ Len(RequiredSkillsOf(r)) = 2
           /\ Len(SkillsNobodyHas(r)) = 1
           /\ Cardinality(SkillCoverageErrors(r)) = 1
    /\ \E r \in 1..Len(passed.tasks) :
           /\ Len(RequiredSkillsOf(r)) > 0
           /\ SkillCoverageErrors(r) = {}

(* the text decodes as an array of positive numbers that lists phase p *)
ListsPhase(text, p) ==
    LET Listed(d) ==
            /\ ~d.threw
            /\ IsPositiveArray(d.v)
            /\ \E k \in 1..Len(d.v.a) : d.v.a[k] = Num(p)
    IN Listed(JSONParse(text))

(* the sum of Duration x MaxConcurrent over the tasks that list phase p *)
RECURSIVE DemandOf(_, _)
DemandOf(taskList, p) ==
    IF taskList = <<>> THEN 0
    ELSE (IF ListsPhase(Head(taskList).PreferredPhases, p)
          THEN Head(taskList).Duration.n * Head(taskList).MaxConcurrent.n
          ELSE 0) + DemandOf(Tail(taskList), p)

(* the sum of MaxLoadPerPhase over the workers that list phase p, each  *)
(* worker counted once                                                   *)
RECURSIVE CapacityOf(_, _)
CapacityOf(workerList, p) ==
    IF workerList = <<>> THEN 0
    ELSE (IF ListsPhase(Head(workerList).AvailableSlots, p)
          THEN Head(workerList).MaxLoadPerPhase.n
          ELSE 0) + CapacityOf(Tail(workerList), p)

(* the phases the texts of the records can name *)
PhaseRange == 0..9

(* the numeric fields the saturation pass reads hold numbers *)
NumbersAsTyped ==
    /\ \A w \in 1..Len(passed.workers) : passed.workers[w].MaxLoadPerPhase.t = "number"
    /\ \A t \in 1..Len(passed.tasks) :
           /\ passed.tasks[t].Duration.t = "number"
           /\ passed.tasks[t].MaxConcurrent.t = "number"

(* the GLOBAL warnings of the saturation pass about phase p *)
SaturationWarnings(p) ==
    {i \in 1..Len(warnings) :
        /\ PassOf(warnings[i]) = 9
        /\ warnings[i].entityId = GLOBAL
        /\ warnings[i].message[2] = NatToStr(p)}

(* C15: the phase-saturation pass emits one GLOBAL warning for each     *)
(* phase listed in some task's decoded preferred phases whose demand     *)
(* (the sum of Duration x MaxConcurrent over the tasks listing it)       *)
(* exceeds its capacity (0 when no worker lists it), and no warning for  *)
(* any other phase.                                                      *)
SaturationExact ==
    (made /\ ~threw /\ NumbersAsTyped) =>
        /\ \A p \in PhaseRange :
               Cardinality(SaturationWarnings(p))
                 = IF /\ \E t \in 1..Len(passed.tasks) :
                            ListsPhase(passed.tasks[t].PreferredPhases, p)
                      /\ DemandOf(passed.tasks, p) > CapacityOf(passed.workers, p)
                   THEN 1 ELSE 0
        /\ \A i \in 1..Len(warnings) :
               PassOf(warnings[i]) = 9 => \E p \in PhaseRange : i \in SaturationWarnings(p)

(* the capacity the saturation pass has for phase p: phaseCapacity[p] || 0 *)
CapacityUsed(p) == OrZero(ObjGet(PhaseCapacity(<<>>, passed.workers), NatToStr(p)))

(* the text decodes as an array of positive numbers *)
Decodes(text) ==
    LET Decoded(d) == ~d.threw /\ IsPositiveArray(d.v)
    IN Decoded(JSONParse(text))

(* C16: when the available slots of every worker decode, the capacity   *)
(* the phase-saturation pass uses for a phase is the sum of              *)
(* MaxLoadPerPhase over the workers whose array lists the phase, each    *)
(* worker counted once however often its array repeats the phase.        *)
CapacityCountsWorkersOnce ==
    (/\ made
     /\ NumbersAsTyped
     /\ \A w \in 1..Len(passed.workers) : Decodes(passed.workers[w].AvailableSlots)) =>
        \A p \in PhaseRange : CapacityUsed(p) = Num(CapacityOf(passed.workers, p))

(* the malformed-data errors about the w-th worker *)
MalformedSlotsErrors(w) ==
    {i \in FieldErrors("worker", w - 1, "AvailableSlots") : PassOf(errors[i]) = 3}

(* the workers without the w-th *)
WorkersWithout(w) ==
    SubSeq(passed.workers, 1, w - 1) \o SubSeq(passed.workers, w + 1, Len(passed.workers))

(* C17: a worker whose AvailableSlots does not decode as an array of    *)
(* positive integers is reported by exactly one malformed-data error and *)
(* contributes no capacity to any phase: the capacities are those of the *)
(* other workers alone.                                                  *)
UndecodableSlotsCountForNothing ==
    (made /\ ~threw) =>
        \A w \in 1..Len(passed.workers) :
            ~Decodes(passed.workers[w].AvailableSlots) =>
                /\ Cardinality(MalformedSlotsErrors(w)) = 1
                /\ PhaseCapacity(<<>>, passed.workers)
                       = PhaseCapacity(<<>>, WorkersWithout(w))

(* the malformed-data errors about the t-th task *)
MalformedPhasesErrors(t) ==
    {i \in FieldErrors("task", t - 1, "PreferredPhases") : PassOf(errors[i]) = 3}

(* C19: the malformed-arrays pass emits one error for a worker (field   *)
(* AvailableSlots) or a task (field PreferredPhases) exactly when the    *)
(* text does not parse as an array or parses to an array with an element *)
(* that is not a positive number; an array of positive numbers, the     *)
(* empty array included, gets none.                                      *)
MalformedExact ==
    (made /\ ~threw) =>
        /\ \A w \in 1..Len(passed.workers) :
               Cardinality(MalformedSlotsErrors(w))
                 = IF Decodes(passed.workers[w].AvailableSlots) THEN 0 ELSE 1
        /\ \A t \in 1..Len(passed.tasks) :
               Cardinality(MalformedPhasesErrors(t))
                 = IF Decodes(passed.tasks[t].PreferredPhases) THEN 0 ELSE 1

(* a returned result over a worker with the empty array (no error), a   *)
(* worker with a non-positive element, a task whose text parses but not  *)
(* to an array and a task whose text does not parse (one error each)     *)
MalformedExactWitness ==
    /\ made
    /\ ~threw
    /\ \E w \in 1..Len(passed.workers) :
           /\ JSONParse(passed.workers[w].AvailableSlots) = [threw |-> FALSE, v |-> Arr(<<>>)]
           /\ MalformedSlotsErrors(w) = {}
    /\ \E w \in 1..Len(passed.workers) :
           /\ JSONParse(passed.workers[w].AvailableSlots).v.t = "array"
           /\ Cardinality(MalformedSlotsErrors(w)) = 1
    /\ \E t \in 1..Len(passed.tasks) :
           /\ JSONParse(passed.tasks[t].PreferredPhases).v.t = "number"
           /\ Cardinality(MalformedPhasesErrors(t)) = 1
    /\ \E t \in 1..Len(passed.tasks) :
           /\ JSONParse(passed.tasks[t].PreferredPhases).threw
           /\ Cardinality(MalformedPhasesErrors(t)) = 1

(* the overload warnings about the w-th worker *)
OverloadWarnings(w) ==
    {i \in 1..Len(warnings) :
        /\ PassOf(warnings[i]) = 8
        /\ warnings[i].entityType = "worker"
        /\ warnings[i].rowIndex = w - 1
        /\ warnings[i].field = "MaxLoadPerPhase"}

(* the number of elements of the array the text parses to *)
SlotCount(text) == Len(JSONParse(text).v.a)

(* C20: the worker-overload pass emits a warning on MaxLoadPerPhase for *)
(* a worker exactly when its AvailableSlots decodes as an array of       *)
(* positive integers with fewer elements than the worker's               *)
(* MaxLoadPerPhase; a worker whose slots do not decode gets none.        *)
OverloadExact ==
    (made /\ ~threw /\ NumbersAsTyped) =>
        \A w \in 1..Len(passed.workers) :
            Cardinality(OverloadWarnings(w))
              = IF /\ Decodes(passed.workers[w].AvailableSlots)
                   /\ SlotCount(passed.workers[w].AvailableSlots)
                         < passed.workers[w].MaxLoadPerPhase.n
                THEN 1 ELSE 0

(* the entityType a diagnostic carries for a record of a collection *)
Singular(k) ==
    CASE k = "clients" -> "client" [] k = "workers" -> "worker" [] OTHER -> "task"

(* the step is a call that returns, made after a call that returned,    *)
(* with a data set that differs from the earlier one in cell c only      *)
EditsOnly(c) ==
    /\ made /\ ~threw /\ ~threw'
    /\ SameShape(passed, passed')
    /\ ChangedCells(passed, passed') = {c}

(* d carries the id the edited record has or had, and the edited field *)
RelatesTo(d, c) ==
    /\ d.entityType = Singular(c[1])
    /\ d.field = c[3]
    /\ d.entityId \in {passed[c[1]][c[2]][IdFieldOf(Singular(c[1]))],
                        passed'[c[1]][c[2]][IdFieldOf(Singular(c[1]))]}

Unrelated(ds, c) == {ds[i] : i \in {j \in DOMAIN ds : ~RelatesTo(ds[j], c)}}

(* C18: when one field of one record is edited and validateAll is run   *)
(* again, every diagnostic that is not about the edited record and field *)
(* is in the new result exactly when it was in the old one                *)
NonInterference ==
    [][\A c \in Cells(passed) :
          EditsOnly(c) =>
              Unrelated(errors \o warnings, c) = Unrelated(errors' \o warnings', c)]_vars

(* the passes that read one record at a time: required columns,         *)
(* malformed arrays, out-of-range values, JSON format, naming heuristic, *)
(* worker overload                                                        *)
RecordLocalPasses == {1, 3, 4, 5, 7, 8}

OfOtherRecords(ds, c) ==
    LET Kept(d) == /\ PassOf(d) \in RecordLocalPasses
                   /\ ~(d.entityType = Singular(c[1]) /\ d.rowIndex = c[2] - 1)
    IN SelectSeq(ds, Kept)

(* C18, amended: when one field of one record is edited and validateAll *)
(* is run again, both calls returning, the diagnostics the one-record    *)
(* passes give about the other records are the same, in the same order   *)
RecordLocalNonInterference ==
    [][\A c \in Cells(passed) :
          EditsOnly(c) =>
              /\ OfOtherRecords(errors, c) = OfOtherRecords(errors', c)
              /\ OfOtherRecords(warnings, c) = OfOtherRecords(warnings', c)]_vars

(* a call that returned after a one-field edit of a record that has a   *)
(* neighbour in its own collection, with a diagnostic of a one-record    *)
(* pass about that neighbour and one about a record of another collection *)
RecordLocalNonInterferenceWitness ==
    /\ made /\ ~threw
    /\ \E c \in before.edited :
          /\ before.edited = {c}
          /\ \E i \in DOMAIN errors :
                /\ PassOf(errors[i]) \in RecordLocalPasses
                /\ errors[i].entityType = Singular(c[1])
                /\ errors[i].rowIndex # c[2] - 1
          /\ \E i \in DOMAIN warnings :
                /\ PassOf(warnings[i]) \in RecordLocalPasses
                /\ warnings[i].entityType # Singular(c[1])

(* the warnings of the concurrency pass about the r-th task *)
ConcurrencyWarnings(r) ==
    {i \in 1..Len(warnings) :
        /\ PassOf(warnings[i]) = 11
        /\ warnings[i].entityType = "task"
        /\ warnings[i].rowIndex = r - 1
        /\ warnings[i].field = "MaxConcurrent"}

(* the w-th worker lists one of the required skills of the r-th task,   *)
(* entries trimmed, letter case apart                                    *)
HasRequiredSkill(w, r) ==
    \E k \in 1..Len(RequiredSkillsOf(r)) :
        \E j \in 1..Len(SplitList(StringOrEmpty(passed.workers[w].Skills))) :
            ToLowerCase(SplitList(StringOrEmpty(passed.workers[w].Skills))[j])
                = ToLowerCase(RequiredSkillsOf(r)[k])

QualifiedCount(r) ==
    Cardinality({w \in 1..Len(passed.workers) : HasRequiredSkill(w, r)})

(* C21: the concurrency pass emits a warning on MaxConcurrent for a     *)
(* task exactly when the number of workers having at least one skill    *)
(* equal, trimmed and without regard to case, to one of the task's      *)
(* required skills is less than the task's MaxConcurrent.                *)
ConcurrencyExact ==
    (made /\ ~threw) =>
        \A r \in 1..Len(passed.tasks) :
            passed.tasks[r].MaxConcurrent.t = "number" =>
                IF QualifiedCount(r) < passed.tasks[r].MaxConcurrent.n
                THEN Cardinality(ConcurrencyWarnings(r)) = 1
                ELSE ConcurrencyWarnings(r) = {}

(* a returned result with a task that has fewer qualified workers than  *)
(* its MaxConcurrent and is warned, and a task with MaxConcurrent 1     *)
(* whose one qualified worker writes the skill in another letter case   *)
ConcurrencyExactWitness ==
    /\ made
    /\ ~threw
    /\ \E r \in 1..Len(passed.tasks) :
           /\ QualifiedCount(r) = 1
           /\ passed.tasks[r].MaxConcurrent = Num(2)
           /\ Cardinality(ConcurrencyWarnings(r)) = 1
    /\ \E r \in 1..Len(passed.tasks) :
           /\ QualifiedCount(r) = 1
           /\ passed.tasks[r].MaxConcurrent = Num(1)
           /\ \A w \in 1..Len(passed.workers) :
                  ~IsQualifiedAsWritten(passed.workers[w], RequiredSkillsOf(r))
           /\ ConcurrencyWarnings(r) = {}

(* the errors of the out-of-range pass about a field of a record *)
RangeErrors(entityType, r, field) ==
    {i \in FieldErrors(entityType, r - 1, field) : PassOf(errors[i]) = 4}

(* one error of the out-of-range pass when the number is below 1, none  *)
(* when it is not                                                        *)
BelowOneExact(entityType, r, field, value) ==
    value.t = "number" =>
        IF value.n < 1 THEN Cardinality(RangeErrors(entityType, r, field)) = 1
        ELSE RangeErrors(entityType, r, field) = {}

(* C22: the out-of-range pass emits an error on MaxLoadPerPhase exactly *)
(* when a worker's max load is below 1, on Duration exactly when a      *)
(* task's duration is below 1 and on MaxConcurrent exactly when a       *)
(* task's max concurrency is below 1; a task violating both gets both   *)
(* errors, Duration first.                                               *)
RangeExact ==
    (made /\ ~threw) =>
        /\ \A w \in 1..Len(passed.workers) :
               BelowOneExact("worker", w, "MaxLoadPerPhase",
                             passed.workers[w].MaxLoadPerPhase)
        /\ \A t \in 1..Len(passed.tasks) :
               /\ BelowOneExact("task", t, "Duration", passed.tasks[t].Duration)
               /\ BelowOneExact("task", t, "MaxConcurrent", passed.tasks[t].MaxConcurrent)
               /\ \A i \in RangeErrors("task", t, "Duration") :
                      \A j \in RangeErrors("task", t, "MaxConcurrent") : i < j

(* a returned result with a worker of max load 0, a worker of max load  *)
(* 1 or more, a task with both numbers 0 and a task with both in range  *)
RangeExactWitness ==
    /\ made
    /\ ~threw
    /\ \E w \in 1..Len(passed.workers) :
           /\ passed.workers[w].MaxLoadPerPhase = Num(0)
           /\ Cardinality(RangeErrors("worker", w, "MaxLoadPerPhase")) = 1
    /\ \E w \in 1..Len(passed.workers) :
           /\ passed.workers[w].MaxLoadPerPhase = Num(1)
           /\ RangeErrors("worker", w, "MaxLoadPerPhase") = {}
    /\ \E t \in 1..Len(passed.tasks) :
           /\ passed.tasks[t].Duration = Num(0)
           /\ passed.tasks[t].MaxConcurrent = Num(0)
           /\ \E i \in RangeErrors("task", t, "Duration") :
                  \E j \in RangeErrors("task", t, "MaxConcurrent") : i < j
    /\ \E t \in 1..Len(passed.tasks) :
           /\ passed.tasks[t].Duration = Num(1)
           /\ RangeErrors("task", t, "Duration") = {}
           /\ RangeErrors("task", t, "MaxConcurrent") = {}

(* the errors of the structured-field pass about the r-th client *)
AttributesErrors(r) ==
    {i \in FieldErrors("client", r - 1, "AttributesJSON") : PassOf(errors[i]) = 5}

(* the text is well-formed JSON whose value is an object or an array *)
IsStructuredText(text) ==
    LET Structured(d) == ~d.threw /\ d.v.t \in {"object", "array"}
    IN Structured(JSONParse(text))

(* C23: the structured-field pass emits exactly one error on            *)
(* AttributesJSON for a client exactly when the client's AttributesJSON  *)
(* text is not a well-formed JSON object or array; the failure is a     *)
(* diagnostic and not an exception.                                      *)
AttributesExact ==
    (made /\ ~threw) =>
        \A r \in 1..Len(passed.clients) :
            IsString(passed.clients[r].AttributesJSON) =>
                IF IsStructuredText(passed.clients[r].AttributesJSON)
                THEN AttributesErrors(r) = {}
                ELSE Cardinality(AttributesErrors(r)) = 1

(* the warnings of the naming heuristic about the r-th task *)
NamingWarnings(r) ==
    {i \in 1..Len(warnings) :
        /\ PassOf(warnings[i]) = 7
        /\ warnings[i].entityType = "task"
        /\ warnings[i].rowIndex = r - 1
        /\ warnings[i].field = "TaskName"}

(* sub occurs in s as a run of consecutive characters *)
Occurs(sub, s) ==
    \E i \in 0..(Len(s) - Len(sub)) : SubSeq(s, i + 1, i + Len(sub)) = sub

TextFields(t) ==
    /\ IsString(passed.tasks[t].TaskID)
    /\ IsString(passed.tasks[t].TaskName)
    /\ IsString(passed.tasks[t].Category)

IdInName(t) == Occurs(passed.tasks[t].TaskID.s, passed.tasks[t].TaskName.s)
IdInCategory(t) == Occurs(passed.tasks[t].TaskID.s, passed.tasks[t].Category.s)

(* C24: the naming heuristic emits for a task exactly one warning on    *)
(* field TaskName when the task's TaskID occurs in its TaskName or in    *)
(* its Category, only one when it occurs in both, and none when it       *)
(* occurs in neither.                                                     *)
NamingExact ==
    (made /\ ~threw) =>
        \A t \in 1..Len(passed.tasks) :
            TextFields(t) =>
                IF IdInName(t) \/ IdInCategory(t)
                THEN Cardinality(NamingWarnings(t)) = 1
                ELSE NamingWarnings(t) = {}

(* a returned result with a task whose id occurs in its name and in its *)
(* category and has one warning, and a task whose id occurs in its      *)
(* category alone and has one                                            *)
NamingExactWitness ==
    /\ made
    /\ ~threw
    /\ \E t \in 1..Len(passed.tasks) :
           /\ TextFields(t) /\ IdInName(t) /\ IdInCategory(t)
           /\ Cardinality(NamingWarnings(t)) = 1
    /\ \E t \in 1..Len(passed.tasks) :
           /\ TextFields(t) /\ ~IdInName(t) /\ IdInCategory(t)
           /\ Cardinality(NamingWarnings(t)) = 1

(* the numeric fields of a record hold integers *)
NumericFieldsAreIntegers(rec) ==
    \A f \in DOMAIN rec \cap NumericFields : rec[f].t = "number"

(* C25: every validateAll call the page makes, after a file upload and  *)
(* after a grid edit, an applied fix or a modification, passes records   *)
(* whose numeric fields (PriorityLevel, MaxLoadPerPhase, Duration,       *)
(* MaxConcurrent) are integers and not text.                              *)
NumericFieldsCoerced ==
    made =>
        \A k \in DOMAIN passed :
            \A r \in 1..Len(passed[k]) : NumericFieldsAreIntegers(passed[k][r])

(* C26: after any sequence of uploads and updates, once all callbacks   *)
(* have run, the stored validation results equal validateAll applied to  *)
(* the three collections the page state holds, also after an action      *)
(* that updates two collections in turn and after overlapping uploads.   *)
ResultsCurrent ==
    (made /\ pending = {}) =>
        \E now \in {validateAll(<<>>, <<>>, clients, workers, tasks)} :
            ~now.threw => validationResults = Lists(now.errors, now.warnings)

SaturatedPhases(list) ==
    {p \in PhaseRange :
        \E i \in 1..Len(list) :
            /\ PassOf(list[i]) = 9
            /\ list[i].entityId = GLOBAL
            /\ list[i].message[2] = NatToStr(p)}

(* the collection without its last record *)
AllButLast(records) == SubSeq(records, 1, Len(records) - 1)

(* C28: adding one worker record to the worker collection, clients and  *)
(* tasks unchanged, never makes a phase-saturation warning appear for a  *)
(* phase that had none before, whatever the fields of the added worker.  *)
(* The added worker is the last of the collection.                        *)
AddedWorkerKeepsPhasesQuiet ==
    (made /\ ~threw /\ Len(passed.workers) > 0) =>
        \E prior \in {validateAll(<<>>, <<>>, passed.clients,
                                   AllButLast(passed.workers), passed.tasks)} :
            SaturatedPhases(warnings) \subseteq SaturatedPhases(prior.warnings)

(* the number of workers the concurrency pass counts for the r-th task *)
CountedQualified(r) ==
    Cardinality(QualifiedWorkers(passed.workers, RequiredSkillsOf(r)))

(* C29: the skill-coverage and the concurrency pass agree on which      *)
(* workers possess a skill: for every task with a non-empty required     *)
(* skill, when the task has no skill-coverage error the concurrency pass *)
(* counts at least one qualified worker, and when the concurrency pass   *)
(* counts none the skill-coverage error lists all its required skills.   *)
SkillPassesAgree ==
    (made /\ ~threw) =>
        \A r \in 1..Len(passed.tasks) :
            Len(RequiredSkillsOf(r)) > 0 =>
                /\ SkillCoverageErrors(r) = {} => CountedQualified(r) >= 1
                /\ CountedQualified(r) = 0 =>
                       /\ SkillCoverageErrors(r) # {}
                       /\ \A i \in SkillCoverageErrors(r) :
                              errors[i].message[2]
                                  = JoinWith(RequiredSkillsOf(r), <<",", " ">>)

(* a returned result with a task without coverage error for which one  *)
(* worker is counted, and a task for which no worker is counted and      *)
(* whose error lists its skills                                           *)
SkillPassesAgreeWitness ==
    /\ made
    /\ ~threw
    /\ \E r \in 1..Len(passed.tasks) :
           /\ Len(RequiredSkillsOf(r)) > 0
           /\ SkillCoverageErrors(r) = {}
           /\ CountedQualified(r) = 1
    /\ \E r \in 1..Len(passed.tasks) :
           /\ Len(RequiredSkillsOf(r)) > 0
           /\ CountedQualified(r) = 0
           /\ Cardinality(SkillCoverageErrors(r)) = 1

(* the saturation warnings of a list about the phases 1, 2, ..., in the *)
(* order of the list                                                      *)
PositivePhaseWarnings(list) ==
    LET Positive(d) == /\ PassOf(d) = 9
                       /\ d.entityId = GLOBAL
                       /\ \E p \in PhaseRange \ {0} : d.message[2] = NatToStr(p)
    IN SelectSeq(list, Positive)

PhaseNumber(d) == CHOOSE p \in PhaseRange : d.message[2] = NatToStr(p)

Reversed(records) == [k \in 1..Len(records) |-> records[Len(records) + 1 - k]]

(* the warnings about positive phases come in increasing phase number *)
PhasesAscend ==
    (made /\ ~threw) =>
        \A i, j \in 1..Len(PositivePhaseWarnings(warnings)) :
            i < j => PhaseNumber(PositivePhaseWarnings(warnings)[i])
                         < PhaseNumber(PositivePhaseWarnings(warnings)[j])

(* C30: the phase-saturation warnings for positive integer phases are   *)
(* emitted in increasing phase number, whatever the order of the tasks   *)
(* and of the phases listed by a task, so that the task collection in    *)
(* another order gives the same sequence of GLOBAL warnings.              *)
SaturationOrderStable ==
    /\ PhasesAscend
    /\ (made /\ ~threw) =>
           \E other \in {validateAll(<<>>, <<>>, passed.clients, passed.workers,
                                      Reversed(passed.tasks))} :
               PositivePhaseWarnings(other.warnings) = PositivePhaseWarnings(warnings)

====
